---- MODULE Spec2Model ----
(***************************************************************************)
(* Cerberus monitor: the background-task supervisor (backgroundtask.rs),   *)
(* the Napco Gemini serial bus framer and keypad decoder (napcogemini.rs), *)
(* the status sink they publish to (status.rs), the dummy device           *)
(* (dummydevice.rs) and the process around them (main.rs).                 *)
(*                                                                         *)
(* The specifications share the variables:                                 *)
(*   Spec / FairSpec  a BackgroundTask supervising a generic task, with    *)
(*                    DeviceMonitor::shutdown around each finish           *)
(*   FramerSpec       NapcoSerialInterface fed arbitrary bytes             *)
(*   BurstSpec        NapcoSerialInterface on a port that fills the buffer *)
(*                    to its capacity                                      *)
(*   MonitorSpec      NapcoGeminiDeviceMonitor: try_spawn, the run loop,   *)
(*                    the framer, the decoder, shutdown                    *)
(*   MonitorFairSpec  the same on a bus carrying two frames, with the task *)
(*                    scheduled fairly                                     *)
(*   PairingSpec      the same on a bus that also carries frames that are  *)
(*                    no keypad messages                                   *)
(*   LabelSpec        the same on a bus whose frames differ in their       *)
(*                    status bytes                                         *)
(*   MainSpec         main: startup, the creation loop, the dummy tasks,   *)
(*                    the termination signal, the teardown loop            *)
(*   TeardownFairSpec the teardown loop over arbitrary device monitors,    *)
(*                    scheduled fairly                                     *)
(*   IdSpec           threads racing on DeviceId::default()                *)
(***************************************************************************)
EXTENDS Integers, Sequences, FiniteSets, TLC

VARIABLES
    \* ---- BackgroundTask<T> (backgroundtask.rs:10-14) and its owner
    shutdown_token,      \* "NoToken" | "Active" | "Cancelled"
    shutdown_dropguard,  \* "None" | "Armed"      (Option<DropGuard>)
    join_handle,         \* "None" | "Some"       (Option<JoinHandle<T>>)
    owner_pc,            \* where the owner of the handle is
    spawn_result,        \* <<"None">> | <<"Ok">> | <<"Err", e>>
    finish_results,      \* what each finish() call returned, in call order
    shutdown_results,    \* how each DeviceMonitor::shutdown call around a
                         \* finish() call ended, in call order
    \* ---- the spawned future
    task_pc,             \* "none" (never spawned) | ... | "done" | "panicked"
    task_kind,           \* which body the future runs
    task_value,          \* the value the future returns when it completes
    observed,            \* result of the task's last is_cancelled() check
    \* ---- NapcoSerialInterface (napcogemini.rs:13-25)
    buffer,              \* the Vec<u8>, as far as it was ever written; the
                         \* bytes past Len(buffer) are still the initial 0
    buffer_len,          \* bytes currently in the buffer
    error_count,         \* bytes discarded as not belonging to a message
    bus_count,           \* bytes the port has handed over so far
    last_poll,           \* the last read_message_vec call: the valid bytes
                         \* and error_count before it, what the port read
                         \* returned, what the call returned, what the
                         \* call before it returned, whether it panicked or
                         \* read a byte past buffer_len; and the bytes read
                         \* into the buffer and what was taken off it, in
                         \* order (of all calls so far where the framer is
                         \* polled on its own)
    \* ---- NapcoGeminiDeviceMonitor (napcogemini.rs:183-247) and its bus
    NEXT_DEVICE_ID,      \* the id counter (main.rs:63-68)
    id,                  \* the id NapcoGeminiDeviceMonitor::new took
    port,                \* <<"Unopened">> | <<"Ok">> | <<"Err", e>>
    wire,                \* bytes waiting at the serial port
    frames_sent,         \* frames the bus has carried so far
    short_reads,         \* reads that returned less than was waiting
    last_line_0,         \* None | Some(text of the pending line 0)
    last_keypad_message, \* the last keypad message published, "" at first
    last_iter,           \* the last loop iteration: what it met, what
                         \* read_message_vec returned, the frame of the
                         \* latest line 0, the frames ignored since if no
                         \* line 1 came since (before and after the
                         \* iteration), and from before the iteration the
                         \* two locals, the number of the monitor's entries
                         \* and the number of messages on the two channels
    \* ---- StatusManager (status.rs:29-36) and the notification channels
    devices,             \* Vec<(DeviceId, String)>
    statuses,            \* HashMap<DeviceId, Vec<StatusEntry>>
    status_chan,         \* log messages handed to send_status
    alarm_chan,          \* log messages handed to send_alarm
    \* ---- main (main.rs:138-205)
    main_pc,             \* where main is
    config,              \* the CerberusConfig main loaded
    next_config,         \* the descriptor the creation loop takes next
    mons,                \* every DeviceMonitor created, in creation order,
                         \* each with its BackgroundTask and its future
    main_devices,        \* main's `devices`: indices into mons
    teardown_i,          \* the device the teardown loop takes next
    last_create,         \* the last iteration of the creation loop: the
                         \* descriptor, what create_device_monitor returned,
                         \* and from before it NEXT_DEVICE_ID, the number of
                         \* monitors and the number of registered devices
    \* ---- callers of DeviceId::default() on several threads
    callers              \* per thread: where it is in DeviceId::default(),
                         \* the value it loaded, the ids it was given

btVars == <<shutdown_token, shutdown_dropguard, join_handle, owner_pc,
            spawn_result, finish_results, shutdown_results>>
taskVars == <<task_pc, task_kind, task_value, observed>>
siVars == <<buffer, buffer_len, error_count, bus_count, last_poll>>
monVars == <<NEXT_DEVICE_ID, id, port, wire, frames_sent, short_reads,
             last_line_0, last_keypad_message, last_iter>>
smVars == <<devices, statuses, status_chan, alarm_chan>>
mainVars == <<main_pc, config, next_config, mons, main_devices, teardown_i,
              last_create>>
procVars == <<mainVars, callers>>
envVars == <<siVars, monVars, smVars, procVars>>
vars == <<btVars, taskVars, envVars>>

----------------------------------------------------------------------------
\* Bounds of the model.
MaxFinishCalls == 3

\* Values a generic supervised future can return, errors a factory can fail
\* with, and the bodies a generic future can have.
Results == {"r1", "r2"}
FactoryErrors == {"e1", "e2"}
TaskKinds == {"cooperative", "uncooperative"}

\* What a try_spawn factory can return: the future to run, or an error.
FactoryResults ==
    [ok : {TRUE}, kind : TaskKinds, value : Results, err : {"-"}]
      \cup [ok : {FALSE}, kind : {"-"}, value : {"-"}, err : FactoryErrors]

\* First program counter of a future's body.
FirstPc(kind) ==
    CASE kind = "cooperative" -> "check"
      [] kind = "uncooperative" -> "busy"
      [] OTHER -> "start"

----------------------------------------------------------------------------
\* Spawn as it would be with the guard left out of the handle.
Spawn_Unguarded(kind, value) ==
    /\ owner_pc = "init"
    /\ shutdown_token' = "Active"
    /\ shutdown_dropguard' = "None"
    /\ join_handle' = "Some"
    /\ task_pc' = FirstPc(kind)
    /\ task_kind' = kind
    /\ task_value' = value
    /\ spawn_result' = <<"Ok">>
    /\ owner_pc' = "holding"
    /\ UNCHANGED <<finish_results, shutdown_results, observed>>

\* BackgroundTask::spawn: new token, armed guard, tokio::spawn(func(token)).
Spawn(kind, value) ==
    /\ owner_pc = "init"
    /\ shutdown_token' = "Active"
    /\ shutdown_dropguard' = "Armed"
    /\ join_handle' = "Some"
    /\ task_pc' = FirstPc(kind)
    /\ task_kind' = kind
    /\ task_value' = value
    /\ spawn_result' = <<"Ok">>
    /\ owner_pc' = "holding"
    /\ UNCHANGED <<finish_results, shutdown_results, observed>>

\* try_spawn as it would be if the future were spawned whatever the factory
\* returned.
TrySpawn_SpawnsAnyway(fr) ==
    /\ owner_pc = "init"
    /\ task_pc' = FirstPc(fr.kind)
    /\ task_kind' = fr.kind
    /\ task_value' = fr.value
    /\ IF fr.ok
         THEN /\ shutdown_token' = "Active"
              /\ shutdown_dropguard' = "Armed"
              /\ join_handle' = "Some"
              /\ spawn_result' = <<"Ok">>
              /\ owner_pc' = "holding"
         ELSE /\ shutdown_token' = "Cancelled"
              /\ shutdown_dropguard' = "None"
              /\ join_handle' = "None"
              /\ spawn_result' = <<"Err", fr.err>>
              /\ owner_pc' = "failed"
    /\ UNCHANGED <<finish_results, shutdown_results, observed>>

\* BackgroundTask::try_spawn with a factory returning fr. On Err no future is
\* spawned and no handle is built; the local guard is dropped armed at the end
\* of the function, which cancels the token nobody holds any more.
TrySpawn(fr) ==
    /\ owner_pc = "init"
    /\ IF fr.ok
         THEN /\ shutdown_token' = "Active"
              /\ shutdown_dropguard' = "Armed"
              /\ join_handle' = "Some"
              /\ task_pc' = FirstPc(fr.kind)
              /\ task_kind' = fr.kind
              /\ task_value' = fr.value
              /\ spawn_result' = <<"Ok">>
              /\ owner_pc' = "holding"
         ELSE /\ shutdown_token' = "Cancelled"
              /\ shutdown_dropguard' = "None"
              /\ join_handle' = "None"
              /\ spawn_result' = <<"Err", fr.err>>
              /\ owner_pc' = "failed"
              /\ UNCHANGED <<task_pc, task_kind, task_value>>
    /\ UNCHANGED <<finish_results, shutdown_results, observed>>

\* shutdown as it would be with `self.task.finish().await?` in a function
\* returning a Result.
shutdown_Propagates(finish_result) ==
    IF finish_result[1] = "Err" THEN <<"Raised", finish_result[2]>>
                                ELSE <<"Returned">>

\* DeviceMonitor::shutdown of both monitors (dummydevice.rs:63-65,
\* napcogemini.rs:252-254): `let _ = self.task.finish().await;` drops what
\* finish returned, and the function returns ().
shutdown(finish_result) == <<"Returned">>

\* finish(), line 51: cancel the token (an atomic store the running future can
\* observe before finish goes on).
FinishCancel ==
    /\ owner_pc = "holding"
    /\ Len(finish_results) < MaxFinishCalls
    /\ shutdown_token' = "Cancelled"
    /\ owner_pc' = "f_take"
    /\ UNCHANGED <<shutdown_dropguard, join_handle, spawn_result,
                   finish_results, shutdown_results, taskVars>>
    /\ UNCHANGED envVars

\* FinishTake as it would be if the join handle were borrowed, not taken.
FinishTake_KeepsHandle ==
    /\ owner_pc = "f_take"
    /\ shutdown_dropguard' = "None"
    /\ IF join_handle = "Some"
         THEN /\ owner_pc' = "f_join"
              /\ UNCHANGED <<finish_results, shutdown_results>>
         ELSE /\ owner_pc' = "holding"
              /\ finish_results' =
                    Append(finish_results, <<"Err", "task already finished">>)
              /\ shutdown_results' =
                    Append(shutdown_results,
                           shutdown(<<"Err", "task already finished">>))
    /\ UNCHANGED <<shutdown_token, join_handle, spawn_result, taskVars>>
    /\ UNCHANGED envVars

\* finish(), lines 52-61: take and disarm the guard, take the join handle;
\* bail when the handle was already taken, else go on to await it.
FinishTake ==
    /\ owner_pc = "f_take"
    /\ shutdown_dropguard' = "None"
    /\ join_handle' = "None"
    /\ IF join_handle = "Some"
         THEN /\ owner_pc' = "f_join"
              /\ UNCHANGED <<finish_results, shutdown_results>>
         ELSE /\ owner_pc' = "holding"
              /\ finish_results' =
                    Append(finish_results, <<"Err", "task already finished">>)
              /\ shutdown_results' =
                    Append(shutdown_results,
                           shutdown(<<"Err", "task already finished">>))
    /\ UNCHANGED <<shutdown_token, spawn_result, taskVars>>
    /\ UNCHANGED envVars

\* FinishJoin as it would be if finish did not await the join handle.
FinishJoin_NoWait ==
    /\ owner_pc = "f_join"
    /\ finish_results' =
          Append(finish_results,
                 IF task_pc = "panicked" THEN <<"Err", "JoinError">>
                                         ELSE <<"Ok", task_value>>)
    /\ shutdown_results' =
          Append(shutdown_results,
                 shutdown(IF task_pc = "panicked" THEN <<"Err", "JoinError">>
                                                  ELSE <<"Ok", task_value>>))
    /\ owner_pc' = "holding"
    /\ UNCHANGED <<shutdown_token, shutdown_dropguard, join_handle,
                   spawn_result, taskVars>>
    /\ UNCHANGED envVars

\* finish(): join_handle.await completes once the future has completed
\* (Ok(value)) or panicked (JoinError, passed on by `?`).
FinishJoin ==
    /\ owner_pc = "f_join"
    /\ task_pc \in {"done", "panicked"}
    /\ finish_results' =
          Append(finish_results,
                 IF task_pc = "done" THEN <<"Ok", task_value>>
                                     ELSE <<"Err", "JoinError">>)
    /\ shutdown_results' =
          Append(shutdown_results,
                 shutdown(IF task_pc = "done" THEN <<"Ok", task_value>>
                                              ELSE <<"Err", "JoinError">>))
    /\ owner_pc' = "holding"
    /\ UNCHANGED <<shutdown_token, shutdown_dropguard, join_handle,
                   spawn_result, taskVars>>
    /\ UNCHANGED envVars

\* The handle goes out of scope: the fields are dropped in order; an armed
\* guard cancels the token, the join handle detaches the task.
DropHandle ==
    /\ owner_pc = "holding"
    /\ shutdown_token' =
          IF shutdown_dropguard = "Armed" THEN "Cancelled" ELSE shutdown_token
    /\ shutdown_dropguard' = "None"
    /\ join_handle' = "None"
    /\ owner_pc' = "dropped"
    /\ UNCHANGED <<spawn_result, finish_results, shutdown_results, taskVars>>
    /\ UNCHANGED envVars

----------------------------------------------------------------------------
\* A generic supervised future. A cooperative one checks the token every
\* round and returns once it is cancelled; an uncooperative one never looks
\* at the token and completes, or not, on its own. Either may panic.
TaskCheck ==
    /\ task_pc = "check"
    /\ observed' = (shutdown_token = "Cancelled")
    /\ task_pc' = IF shutdown_token = "Cancelled" THEN "done" ELSE "work"
    /\ UNCHANGED <<btVars, task_kind, task_value>>
    /\ UNCHANGED envVars

TaskWork ==
    /\ task_pc = "work"
    /\ task_pc' = "check"
    /\ UNCHANGED <<btVars, task_kind, task_value, observed>>
    /\ UNCHANGED envVars

TaskComplete ==
    /\ task_pc = "busy"
    /\ task_pc' = "done"
    /\ UNCHANGED <<btVars, task_kind, task_value, observed>>
    /\ UNCHANGED envVars

TaskPanic ==
    /\ task_pc \in {"work", "busy"}
    /\ task_pc' = "panicked"
    /\ UNCHANGED <<btVars, task_kind, task_value, observed>>
    /\ UNCHANGED envVars

TaskStep == TaskCheck \/ TaskWork \/ TaskComplete \/ TaskPanic

----------------------------------------------------------------------------
\* NapcoSerialInterface: the framer (napcogemini.rs:13-114).

\* Bound of the model: bytes the port hands over in one behaviour of FramerSpec.
MaxStream == 7

\* The bytes the port hands over in FramerSpec: 1 declares a length below 3,
\* 3 and 4 declare the lengths 3 and 4, 255 declares 31 and makes sums wrap.
ByteSet == {1, 3, 4, 255}

BUFFER_CAP == 1024

None == <<"None">>
Some(x) == <<"Some", x>>

Min(a, b) == IF a < b THEN a ELSE b
Max(a, b) == IF a < b THEN b ELSE a

\* self.buffer[i], i counted from 0 as in the source.
BufAt(buf, i) == IF i < Len(buf) THEN buf[i + 1] ELSE 0

\* discard_buffer as it would be if it never counted the bytes as errors.
discard_buffer_uncounted(buf, len, err, n, is_error) ==
    IF n > len
      THEN [buffer |-> buf, buffer_len |-> len, error_count |-> err,
            panic |-> TRUE]
      ELSE [buffer |-> [j \in 1..Len(buf) |->
                          IF j <= len - n THEN buf[j + n] ELSE buf[j]],
            buffer_len |-> len - n,
            error_count |-> err,
            panic |-> FALSE]

\* discard_buffer as it would be if it took n off buffer_len without moving
\* the bytes behind them down.
discard_buffer_NoShift(buf, len, err, n, is_error) ==
    IF n > len
      THEN [buffer |-> buf, buffer_len |-> len, error_count |-> err,
            panic |-> TRUE]
      ELSE [buffer |-> buf,
            buffer_len |-> len - n,
            error_count |-> IF is_error THEN err + n ELSE err,
            panic |-> FALSE]

\* discard_buffer(n, is_error): panics when n > buffer_len; else moves the
\* bytes n..buffer_len down by n (the bytes behind them stay as they were),
\* takes n off buffer_len and, for an error, adds n to error_count.
discard_buffer(buf, len, err, n, is_error) ==
    IF n > len
      THEN [buffer |-> buf, buffer_len |-> len, error_count |-> err,
            panic |-> TRUE]
      ELSE [buffer |-> [j \in 1..Len(buf) |->
                          IF j <= len - n THEN buf[j + n] ELSE buf[j]],
            buffer_len |-> len - n,
            error_count |-> IF is_error THEN err + n ELSE err,
            panic |-> FALSE]

\* The running 8-bit sum of buffer[0..k), wrapping as overflowing_add does.
RECURSIVE recieved_checksum(_, _)
recieved_checksum(buf, k) ==
    IF k = 0 THEN 0
             ELSE (recieved_checksum(buf, k - 1) + BufAt(buf, k - 1)) % 256

\* Reading buffer[i] while only the first len bytes are current reads a
\* byte that is stale or was never written.
Stale(len, i) == i >= len

\* The while loop of read_message_vec as it would be if a candidate longer
\* than the buffered bytes were counted as an error: one byte is discarded
\* and the call gives up.
RECURSIVE ScanBuffer_Impatient(_, _, _, _, _)
ScanBuffer_Impatient(buf, len, err, stale, taken) ==
    IF len < 4
      THEN [buffer |-> buf, buffer_len |-> len, error_count |-> err,
            ret |-> None, panic |-> FALSE, stale |-> stale, log |-> taken]
      ELSE
        LET message_length == BufAt(buf, 1) % 32
            bad == discard_buffer(buf, len, err, 1, TRUE)
            head == [error |-> TRUE, bytes |-> <<BufAt(buf, 0)>>]
            stale1 == stale \/ Stale(len, 1)
            staleN == stale1 \/ Stale(len, message_length - 1)
            died(st) == [buffer |-> buf, buffer_len |-> len,
                         error_count |-> err, ret |-> None, panic |-> TRUE,
                         stale |-> st, log |-> taken]
        IN  IF message_length < 3
              THEN IF bad.panic
                     THEN died(stale1)
                     ELSE ScanBuffer_Impatient(bad.buffer, bad.buffer_len,
                                              bad.error_count, stale1,
                                              Append(taken, head))
            ELSE IF len < message_length
              THEN [buffer |-> bad.buffer, buffer_len |-> bad.buffer_len,
                    error_count |-> bad.error_count,
                    ret |-> None, panic |-> bad.panic, stale |-> stale1,
                    log |-> Append(taken, head)]
            ELSE IF BufAt(buf, message_length - 1)
                      # recieved_checksum(buf, message_length - 1)
              THEN IF bad.panic
                     THEN died(staleN)
                     ELSE ScanBuffer_Impatient(bad.buffer, bad.buffer_len,
                                              bad.error_count, staleN,
                                              Append(taken, head))
            ELSE LET d == discard_buffer(buf, len, err, message_length, FALSE)
                     message == [j \in 1..message_length |-> BufAt(buf, j - 1)]
                 IN  [buffer |-> d.buffer, buffer_len |-> d.buffer_len,
                      error_count |-> d.error_count,
                      ret |-> IF d.panic THEN None ELSE Some(message),
                      panic |-> d.panic,
                      stale |-> staleN,
                      log |-> IF d.panic
                                THEN taken
                                ELSE Append(taken, [error |-> FALSE,
                                                    bytes |-> message])]

\* The while loop of read_message_vec as it would be if the checksum were
\* never compared: every candidate that is long enough and all there is
\* returned.
RECURSIVE ScanBuffer_NoChecksum(_, _, _, _, _)
ScanBuffer_NoChecksum(buf, len, err, stale, taken) ==
    IF len < 4
      THEN [buffer |-> buf, buffer_len |-> len, error_count |-> err,
            ret |-> None, panic |-> FALSE, stale |-> stale, log |-> taken]
      ELSE
        LET message_length == BufAt(buf, 1) % 32
            bad == discard_buffer(buf, len, err, 1, TRUE)
            head == [error |-> TRUE, bytes |-> <<BufAt(buf, 0)>>]
            stale1 == stale \/ Stale(len, 1)
            staleN == stale1 \/ Stale(len, message_length - 1)
            died(st) == [buffer |-> buf, buffer_len |-> len,
                         error_count |-> err, ret |-> None, panic |-> TRUE,
                         stale |-> st, log |-> taken]
        IN  IF message_length < 3
              THEN IF bad.panic
                     THEN died(stale1)
                     ELSE ScanBuffer_NoChecksum(bad.buffer, bad.buffer_len,
                                               bad.error_count, stale1,
                                               Append(taken, head))
            ELSE IF len < message_length
              THEN [buffer |-> buf, buffer_len |-> len, error_count |-> err,
                    ret |-> None, panic |-> FALSE, stale |-> stale1,
                    log |-> taken]
            ELSE LET d == discard_buffer(buf, len, err, message_length, FALSE)
                     message == [j \in 1..message_length |-> BufAt(buf, j - 1)]
                 IN  [buffer |-> d.buffer, buffer_len |-> d.buffer_len,
                      error_count |-> d.error_count,
                      ret |-> IF d.panic THEN None ELSE Some(message),
                      panic |-> d.panic,
                      stale |-> staleN,
                      log |-> IF d.panic
                                THEN taken
                                ELSE Append(taken, [error |-> FALSE,
                                                    bytes |-> message])]

\* The while loop of read_message_vec as it would be if it never checked
\* that the candidate is all there before summing it up.
RECURSIVE ScanBuffer_NoLengthCheck(_, _, _, _, _)
ScanBuffer_NoLengthCheck(buf, len, err, stale, taken) ==
    IF len < 4
      THEN [buffer |-> buf, buffer_len |-> len, error_count |-> err,
            ret |-> None, panic |-> FALSE, stale |-> stale, log |-> taken]
      ELSE
        LET message_length == BufAt(buf, 1) % 32
            bad == discard_buffer(buf, len, err, 1, TRUE)
            head == [error |-> TRUE, bytes |-> <<BufAt(buf, 0)>>]
            stale1 == stale \/ Stale(len, 1)
            staleN == stale1 \/ Stale(len, message_length - 1)
            died(st) == [buffer |-> buf, buffer_len |-> len,
                         error_count |-> err, ret |-> None, panic |-> TRUE,
                         stale |-> st, log |-> taken]
        IN  IF message_length < 3
              THEN IF bad.panic
                     THEN died(stale1)
                     ELSE ScanBuffer_NoLengthCheck(bad.buffer, bad.buffer_len,
                                                  bad.error_count, stale1,
                                                  Append(taken, head))
            ELSE IF BufAt(buf, message_length - 1)
                      # recieved_checksum(buf, message_length - 1)
              THEN IF bad.panic
                     THEN died(staleN)
                     ELSE ScanBuffer_NoLengthCheck(bad.buffer, bad.buffer_len,
                                                  bad.error_count, staleN,
                                                  Append(taken, head))
            ELSE LET d == discard_buffer(buf, len, err, message_length, FALSE)
                     message == [j \in 1..message_length |-> BufAt(buf, j - 1)]
                 IN  [buffer |-> d.buffer, buffer_len |-> d.buffer_len,
                      error_count |-> d.error_count,
                      ret |-> IF d.panic THEN None ELSE Some(message),
                      panic |-> d.panic,
                      stale |-> staleN,
                      log |-> IF d.panic
                                THEN taken
                                ELSE Append(taken, [error |-> FALSE,
                                                    bytes |-> message])]

\* The while loop of read_message_vec as it would be if a candidate that does
\* not sum up ended the call with nothing discarded.
RECURSIVE ScanBuffer_GivesUp(_, _, _, _, _)
ScanBuffer_GivesUp(buf, len, err, stale, taken) ==
    IF len < 4
      THEN [buffer |-> buf, buffer_len |-> len, error_count |-> err,
            ret |-> None, panic |-> FALSE, stale |-> stale, log |-> taken]
      ELSE
        LET message_length == BufAt(buf, 1) % 32
            bad == discard_buffer(buf, len, err, 1, TRUE)
            head == [error |-> TRUE, bytes |-> <<BufAt(buf, 0)>>]
            stale1 == stale \/ Stale(len, 1)
            staleN == stale1 \/ Stale(len, message_length - 1)
            died(st) == [buffer |-> buf, buffer_len |-> len,
                         error_count |-> err, ret |-> None, panic |-> TRUE,
                         stale |-> st, log |-> taken]
        IN  IF message_length < 3
              THEN IF bad.panic
                     THEN died(stale1)
                     ELSE ScanBuffer_GivesUp(bad.buffer, bad.buffer_len,
                                            bad.error_count, stale1,
                                            Append(taken, head))
            ELSE IF len < message_length
              THEN [buffer |-> buf, buffer_len |-> len, error_count |-> err,
                    ret |-> None, panic |-> FALSE, stale |-> stale1,
                    log |-> taken]
            ELSE IF BufAt(buf, message_length - 1)
                      # recieved_checksum(buf, message_length - 1)
              THEN [buffer |-> buf, buffer_len |-> len, error_count |-> err,
                    ret |-> None, panic |-> FALSE, stale |-> staleN,
                    log |-> taken]
            ELSE LET d == discard_buffer(buf, len, err, message_length, FALSE)
                     message == [j \in 1..message_length |-> BufAt(buf, j - 1)]
                 IN  [buffer |-> d.buffer, buffer_len |-> d.buffer_len,
                      error_count |-> d.error_count,
                      ret |-> IF d.panic THEN None ELSE Some(message),
                      panic |-> d.panic,
                      stale |-> staleN,
                      log |-> IF d.panic
                                THEN taken
                                ELSE Append(taken, [error |-> FALSE,
                                                    bytes |-> message])]

\* The while loop of read_message_vec (lines 80-113) on the buffer as the
\* read left it: what it leaves and returns; stale tells whether it read a
\* byte past buffer_len, and taken is what it took off the buffer, in order:
\* the bytes it discarded as errors and the message it returned. Both are
\* passed on from one iteration of the loop to the next.
RECURSIVE ScanBuffer(_, _, _, _, _)
ScanBuffer(buf, len, err, stale, taken) ==
    IF len < 4
      THEN [buffer |-> buf, buffer_len |-> len, error_count |-> err,
            ret |-> None, panic |-> FALSE, stale |-> stale, log |-> taken]
      ELSE
        LET message_length == BufAt(buf, 1) % 32
            bad == discard_buffer(buf, len, err, 1, TRUE)
            head == [error |-> TRUE, bytes |-> <<BufAt(buf, 0)>>]
            stale1 == stale \/ Stale(len, 1)
            staleN == stale1 \/ Stale(len, message_length - 1)
            died(st) == [buffer |-> buf, buffer_len |-> len,
                         error_count |-> err, ret |-> None, panic |-> TRUE,
                         stale |-> st, log |-> taken]
        IN  IF message_length < 3
              THEN IF bad.panic
                     THEN died(stale1)
                     ELSE ScanBuffer(bad.buffer, bad.buffer_len,
                                     bad.error_count, stale1,
                                     Append(taken, head))
            ELSE IF len < message_length
              THEN [buffer |-> buf, buffer_len |-> len, error_count |-> err,
                    ret |-> None, panic |-> FALSE, stale |-> stale1,
                    log |-> taken]
            ELSE IF BufAt(buf, message_length - 1)
                      # recieved_checksum(buf, message_length - 1)
              THEN IF bad.panic
                     THEN died(staleN)
                     ELSE ScanBuffer(bad.buffer, bad.buffer_len,
                                     bad.error_count, staleN,
                                     Append(taken, head))
            ELSE LET d == discard_buffer(buf, len, err, message_length, FALSE)
                     message == [j \in 1..message_length |-> BufAt(buf, j - 1)]
                 IN  [buffer |-> d.buffer, buffer_len |-> d.buffer_len,
                      error_count |-> d.error_count,
                      ret |-> IF d.panic THEN None ELSE Some(message),
                      panic |-> d.panic,
                      stale |-> staleN,
                      log |-> IF d.panic
                                THEN taken
                                ELSE Append(taken, [error |-> FALSE,
                                                    bytes |-> message])]

\* Lines 70-75: unless the buffer is full, port.read into its free tail; an
\* Err from the port (a timeout) adds nothing. rd is what port.read returns.
ReadPort(buf, len, rd) ==
    IF len < BUFFER_CAP /\ rd[1] = "Ok"
      THEN [buffer |-> [j \in 1..Max(Len(buf), len + Len(rd[2])) |->
                          IF j > len /\ j <= len + Len(rd[2])
                            THEN rd[2][j - len]
                            ELSE buf[j]],
            buffer_len |-> len + Len(rd[2])]
      ELSE [buffer |-> buf, buffer_len |-> len]

\* read_message_vec: the read, then the scan.
read_message_vec(buf, len, err, rd) ==
    LET r == ReadPort(buf, len, rd)
    IN  ScanBuffer(r.buffer, r.buffer_len, err, FALSE, <<>>)

\* What port.read can return when at most n more bytes may come: an error
\* (nothing to read within the timeout) or Ok with 0..n bytes of `bytes`.
PortReads(bytes, n) ==
    {<<"Err">>} \cup
    {<<"Ok", c>> : c \in UNION {[1..k -> bytes] : k \in 0..n}}

\* One read_message_vec call with the port returning rd. last_poll keeps
\* the bytes read and the bytes taken off of all calls so far when keep is
\* TRUE, and of this call alone when it is FALSE.
PollKeeping(rd, keep) ==
    LET out == read_message_vec(buffer, buffer_len, error_count, rd)
        filled == ReadPort(buffer, buffer_len, rd)
        got == filled.buffer_len - buffer_len
    IN  /\ buffer' = out.buffer
        /\ buffer_len' = out.buffer_len
        /\ error_count' = out.error_count
        /\ bus_count' = bus_count + got
        /\ last_poll' = [pre |-> SubSeq(buffer, 1, buffer_len),
                         pre_err |-> error_count,
                         read |-> rd,
                         ret |-> out.ret,
                         prev_ret |-> last_poll.ret,
                         panic |-> out.panic,
                         stale |-> out.stale,
                         accepted |-> (IF keep THEN last_poll.accepted
                                               ELSE <<>>)
                                        \o SubSeq(filled.buffer,
                                                   buffer_len + 1,
                                                   filled.buffer_len),
                         log |-> (IF keep THEN last_poll.log ELSE <<>>)
                                   \o out.log]

\* One read_message_vec call in the monitor.
Poll(rd) == PollKeeping(rd, FALSE)

\* The framer polled on its own, the port handing over any bytes.
FramerPoll ==
    /\ \E rd \in PortReads(ByteSet,
                           Min(MaxStream - bus_count, BUFFER_CAP - buffer_len)) :
          PollKeeping(rd, TRUE)
    /\ UNCHANGED <<btVars, taskVars, monVars, smVars, procVars>>

----------------------------------------------------------------------------
\* Strings. A Rust String is modelled as the sequence of its Unicode scalar
\* values; the text each constant stands for is in its comment.

\* The White_Space characters str::trim removes.
IsWhitespace(c) ==
    \/ c \in 9..13
    \/ c \in {32, 133, 160, 5760, 8232, 8233, 8239, 8287, 12288}
    \/ c \in 8192..8202

RECURSIVE trim_start(_)
trim_start(s) ==
    IF s # <<>> /\ IsWhitespace(Head(s)) THEN trim_start(Tail(s)) ELSE s

RECURSIVE trim_end(_)
trim_end(s) ==
    IF s # <<>> /\ IsWhitespace(s[Len(s)])
      THEN trim_end(SubSeq(s, 1, Len(s) - 1))
      ELSE s

\* str::trim: leading and trailing whitespace removed.
trim(s) == trim_end(trim_start(s))

\* str::to_lowercase; exact on ASCII and on U+FFFD, the scalars a decoded
\* keypad text of the model is made of.
to_lowercase(s) ==
    [i \in 1..Len(s) |-> IF s[i] \in 65..90 THEN s[i] + 32 ELSE s[i]]

\* str::contains with a string pattern.
contains(s, pat) ==
    \E i \in 1..(Len(s) - Len(pat) + 1) : SubSeq(s, i, i + Len(pat) - 1) = pat

\* String::from_utf8_lossy on bytes that are ASCII or can never occur in
\* UTF-8 (0xF8..0xFF), the bytes a keypad text of the model is made of: an
\* ASCII byte is its own scalar, every invalid byte becomes one U+FFFD.
from_utf8_lossy(bytes) ==
    [i \in 1..Len(bytes) |-> IF bytes[i] < 128 THEN bytes[i] ELSE 65533]

\* One digit, and a byte, as {:02X?} prints them.
HexDigit(d) == IF d < 10 THEN 48 + d ELSE 55 + d
UpperHex2(b) == <<HexDigit(b \div 16), HexDigit(b % 16)>>

\* keypad_status (napcogemini.rs:116-148): the label of a status byte pair.
keypad_status(status1, status2) ==
    CASE <<status1, status2>> = <<2, 0>> ->         \* (0x02, 0x00) "Ready"
           <<82, 101, 97, 100, 121>>
      [] <<status1, status2>> = <<6, 0>> ->         \* (0x06, 0x00) "Ready, Bypass"
           <<82, 101, 97, 100, 121, 44, 32, 66, 121, 112, 97, 115, 115>>
      [] <<status1, status2>> = <<0, 0>> ->         \* (0x00, 0x00) "Zone Fault"
           <<90, 111, 110, 101, 32, 70, 97, 117, 108, 116>>
      [] <<status1, status2>> = <<4, 0>> ->         \* (0x04, 0x00) "Zone Fault, Bypass"
           <<90, 111, 110, 101, 32, 70, 97, 117, 108, 116, 44, 32, 66, 121, 112, 97, 115, 115>>
      [] <<status1, status2>> = <<133, 128>> ->     \* (0x85, 0x80) "Arming, Bypass"
           <<65, 114, 109, 105, 110, 103, 44, 32, 66, 121, 112, 97, 115, 115>>
      [] <<status1, status2>> = <<5, 128>> ->       \* (0x05, 0x80) "Armed, Bypass"
           <<65, 114, 109, 101, 100, 44, 32, 66, 121, 112, 97, 115, 115>>
      [] <<status1, status2>> = <<197, 128>> ->     \* (0xC5, 0x80) "Disarm, Bypass"
           <<68, 105, 115, 97, 114, 109, 44, 32, 66, 121, 112, 97, 115, 115>>
      [] <<status1, status2>> = <<197, 192>> ->     \* (0xC5, 0xC0) "Disarm, Bypass"
           <<68, 105, 115, 97, 114, 109, 44, 32, 66, 121, 112, 97, 115, 115>>
      [] <<status1, status2>> = <<69, 129>> ->      \* (0x45, 0x81) "ALARM, Bypass"
           <<65, 76, 65, 82, 77, 44, 32, 66, 121, 112, 97, 115, 115>>
      [] <<status1, status2>> = <<129, 128>> ->     \* (0x81, 0x80) "Arming"
           <<65, 114, 109, 105, 110, 103>>
      [] <<status1, status2>> = <<1, 128>> ->       \* (0x01, 0x80) "Armed"
           <<65, 114, 109, 101, 100>>
      [] <<status1, status2>> = <<193, 128>> ->     \* (0xC1, 0x80) "Disarm"
           <<68, 105, 115, 97, 114, 109>>
      [] <<status1, status2>> = <<193, 192>> ->     \* (0xC1, 0xC0) "Disarm"
           <<68, 105, 115, 97, 114, 109>>
      [] <<status1, status2>> = <<65, 129>> ->      \* (0x41, 0x81) "ALARM"
           <<65, 76, 65, 82, 77>>
      [] <<status1, status2>> = <<133, 144>> ->     \* (0x85, 0x90) "Arming, Instant, Bypass"
           <<65, 114, 109, 105, 110, 103, 44, 32, 73, 110, 115, 116, 97, 110, 116, 44, 32, 66, 121, 112, 97, 115, 115>>
      [] <<status1, status2>> = <<5, 144>> ->       \* (0x05, 0x90) "Armed, Instant, Bypass"
           <<65, 114, 109, 101, 100, 44, 32, 73, 110, 115, 116, 97, 110, 116, 44, 32, 66, 121, 112, 97, 115, 115>>
      [] <<status1, status2>> = <<129, 144>> ->     \* (0x81, 0x90) "Arming, Instant"
           <<65, 114, 109, 105, 110, 103, 44, 32, 73, 110, 115, 116, 97, 110, 116>>
      [] <<status1, status2>> = <<1, 144>> ->       \* (0x01, 0x90) "Armed, Instant"
           <<65, 114, 109, 101, 100, 44, 32, 73, 110, 115, 116, 97, 110, 116>>
      [] OTHER ->                                \* "Unknown (XX,YY)"
           <<85, 110, 107, 110, 111, 119, 110, 32, 40>> \o UpperHex2(status1)
             \o <<44>> \o UpperHex2(status2) \o <<41>>

\* decode_keypad_message (napcogemini.rs:160-179): Some(<<status, line,
\* text>>) for a 27-byte message whose byte 4 is 0x01 and whose byte 5 is
\* 0x20 (line 0) or 0x60 (line 1), else None. message[i] of the source is
\* message[i + 1] here.
decode_keypad_message(message) ==
    IF Len(message) = 27 /\ message[5] = 1
      THEN LET line == IF message[6] = 32 THEN 0
                       ELSE IF message[6] = 96 THEN 1
                       ELSE -1
           IN  IF line >= 0
                 THEN Some(<<keypad_status(message[9], message[10]), line,
                             from_utf8_lossy(SubSeq(message, 11, 26))>>)
                 ELSE None
      ELSE None

----------------------------------------------------------------------------
\* StatusManager (status.rs): the status sink.

StatusLevels == {"Info", "Status", "Warning", "Alarm"}

\* {:?} of a StatusLevel.
DebugLevel(level) ==
    CASE level = "Info" -> <<73, 110, 102, 111>>
      [] level = "Status" -> <<83, 116, 97, 116, 117, 115>>
      [] level = "Warning" -> <<87, 97, 114, 110, 105, 110, 103>>
      [] level = "Alarm" -> <<65, 108, 97, 114, 109>>

\* update_status, lines 83-88: the name the device was registered with last,
\* "Unknwon Device" when it was never registered.
device_name(devs, device_id) ==
    LET hits == {i \in 1..Len(devs) : devs[i][1] = device_id}
    IN  IF hits = {}
          THEN <<85, 110, 107, 110, 119, 111, 110, 32, 68, 101, 118, 105, 99,
            101>>
          ELSE devs[CHOOSE i \in hits : \A j \in hits : j <= i][2]

\* format!("[{}, {:?}] {}", device_name, level, message)
log_message(devs, device_id, message, level) ==
    <<91>> \o device_name(devs, device_id) \o <<44, 32>> \o DebugLevel(level)
      \o <<93, 32>> \o message

\* update_status (status.rs:73-108) on the sink sm: the entry is appended to
\* the device's list, the log message is sent to the status channel for Info
\* and Status and to the alarm channel for Warning and Alarm.
update_status(sm, device_id, message, level) ==
    LET status_entry == [message |-> message, timestamp |-> 0, level |-> level]
        line == log_message(sm.devices, device_id, message, level)
    IN  [devices |-> sm.devices,
         statuses |->
            IF device_id \in DOMAIN sm.statuses
              THEN [sm.statuses EXCEPT ![device_id] = Append(@, status_entry)]
              ELSE sm.statuses @@ (device_id :> <<status_entry>>),
         status_chan |->
            IF level \in {"Info", "Status"} THEN Append(sm.status_chan, line)
                                            ELSE sm.status_chan,
         alarm_chan |->
            IF level \in {"Warning", "Alarm"} THEN Append(sm.alarm_chan, line)
                                              ELSE sm.alarm_chan]

\* The sink as a record, and the sink set to a record.
Sink ==
    [devices |-> devices, statuses |-> statuses,
     status_chan |-> status_chan, alarm_chan |-> alarm_chan]
SetSink(sm) ==
    /\ devices' = sm.devices
    /\ statuses' = sm.statuses
    /\ status_chan' = sm.status_chan
    /\ alarm_chan' = sm.alarm_chan

----------------------------------------------------------------------------
\* NapcoGeminiDeviceMonitor (napcogemini.rs:183-260).

\* "Napco Gemini device monitor started."
StartedMessage ==
    <<78, 97, 112, 99, 111, 32, 71, 101, 109, 105, 110, 105, 32, 100, 101,
      118, 105, 99, 101, 32, 109, 111, 110, 105, 116, 111, 114, 32, 115, 116,
      97, 114, 116, 101, 100, 46>>
\* "Napco Gemini device monitor stopped."
StoppedMessage ==
    <<78, 97, 112, 99, 111, 32, 71, 101, 109, 105, 110, 105, 32, 100, 101,
      118, 105, 99, 101, 32, 109, 111, 110, 105, 116, 111, 114, 32, 115, 116,
      111, 112, 112, 101, 100, 46>>

\* The merged text as it would be with no trimming at all.
keypad_entire_text_untrimmed(last_line, keypad_text) ==
    last_line \o <<32>> \o keypad_text

\* Line 214: format!("{} {}", last_line.trim(), keypad_text.trim()).trim()
keypad_entire_text(last_line, keypad_text) ==
    trim(trim(last_line) \o <<32>> \o trim(keypad_text))

\* Line 215: format!("{} \"{}\"", keypad_status, keypad_entire_text)
keypad_message(status, entire_text) ==
    status \o <<32, 34>> \o entire_text \o <<34>>

\* The level as it would be if the message were searched as it is written.
keypad_level_NoFold(message) ==
    IF contains(message, <<97, 108, 97, 114, 109>>)
      THEN "Alarm"
      ELSE "Status"

\* Lines 217-221: Alarm when the lowercased message contains "alarm".
keypad_level(message) ==
    IF contains(to_lowercase(message), <<97, 108, 97, 114, 109>>)
      THEN "Alarm"
      ELSE "Status"

\* One iteration of the run loop as it would be if every merged message were
\* published, equal to the last one or not.
KeypadStep_NoDedupe(line0, last, ret) ==
    LET keep(ev) == [last_line_0 |-> line0, last_keypad_message |-> last,
                     publish |-> None, event |-> ev]
        dec == decode_keypad_message(ret[2])
    IN  IF ret = None THEN keep("noframe")
        ELSE IF dec = None THEN keep("ignored")
        ELSE IF dec[2][2] = 0
          THEN [last_line_0 |-> Some(dec[2][3]), last_keypad_message |-> last,
                publish |-> None, event |-> "line0"]
        ELSE IF line0 # None
          THEN LET m == keypad_message(dec[2][1],
                                       keypad_entire_text(line0[2], dec[2][3]))
               IN  [last_line_0 |-> None, last_keypad_message |-> m,
                    publish |-> Some([message |-> m, level |-> keypad_level(m)]),
                    event |-> "line1"]
        ELSE [last_line_0 |-> None, last_keypad_message |-> last,
              publish |-> None, event |-> "line1"]

\* One iteration of the run loop as it would be if a line 1 with no line 0
\* pending were merged with an empty line 0.
KeypadStep_MergesUnpaired(line0, last, ret) ==
    LET keep(ev) == [last_line_0 |-> line0, last_keypad_message |-> last,
                     publish |-> None, event |-> ev]
        dec == decode_keypad_message(ret[2])
        last_line == IF line0 # None THEN line0[2] ELSE <<>>
    IN  IF ret = None THEN keep("noframe")
        ELSE IF dec = None THEN keep("ignored")
        ELSE IF dec[2][2] = 0
          THEN [last_line_0 |-> Some(dec[2][3]), last_keypad_message |-> last,
                publish |-> None, event |-> "line0"]
        ELSE LET m == keypad_message(dec[2][1],
                                     keypad_entire_text(last_line, dec[2][3]))
             IN  IF m # last
                   THEN [last_line_0 |-> None, last_keypad_message |-> m,
                         publish |->
                            Some([message |-> m, level |-> keypad_level(m)]),
                         event |-> "line1"]
                   ELSE [last_line_0 |-> None, last_keypad_message |-> last,
                         publish |-> None, event |-> "line1"]

\* One iteration of the run loop as it would be if a line 0 kept the label
\* of its own status bytes in front of its text.
KeypadStep_Line0Label(line0, last, ret) ==
    LET keep(ev) == [last_line_0 |-> line0, last_keypad_message |-> last,
                     publish |-> None, event |-> ev]
        dec == decode_keypad_message(ret[2])
    IN  IF ret = None THEN keep("noframe")
        ELSE IF dec = None THEN keep("ignored")
        ELSE IF dec[2][2] = 0
          THEN [last_line_0 |-> Some(dec[2][1] \o <<32>> \o dec[2][3]),
                last_keypad_message |-> last,
                publish |-> None, event |-> "line0"]
        ELSE IF line0 # None
          THEN LET m == keypad_message(dec[2][1],
                                       keypad_entire_text(line0[2], dec[2][3]))
               IN  IF m # last
                     THEN [last_line_0 |-> None, last_keypad_message |-> m,
                           publish |->
                              Some([message |-> m, level |-> keypad_level(m)]),
                           event |-> "line1"]
                     ELSE [last_line_0 |-> None, last_keypad_message |-> last,
                           publish |-> None, event |-> "line1"]
        ELSE [last_line_0 |-> None, last_keypad_message |-> last,
              publish |-> None, event |-> "line1"]

\* One iteration of the run loop as it would be if every frame that is not a
\* line 0 cleared the pending line 0, a keypad message or not.
KeypadStep_IgnoredClears(line0, last, ret) ==
    LET dec == decode_keypad_message(ret[2])
    IN  IF ret = None
          THEN [last_line_0 |-> line0, last_keypad_message |-> last,
                publish |-> None, event |-> "noframe"]
        ELSE IF dec = None
          THEN [last_line_0 |-> None, last_keypad_message |-> last,
                publish |-> None, event |-> "ignored"]
        ELSE IF dec[2][2] = 0
          THEN [last_line_0 |-> Some(dec[2][3]), last_keypad_message |-> last,
                publish |-> None, event |-> "line0"]
        ELSE IF line0 # None
          THEN LET m == keypad_message(dec[2][1],
                                       keypad_entire_text(line0[2], dec[2][3]))
               IN  IF m # last
                     THEN [last_line_0 |-> None, last_keypad_message |-> m,
                           publish |->
                              Some([message |-> m, level |-> keypad_level(m)]),
                           event |-> "line1"]
                     ELSE [last_line_0 |-> None, last_keypad_message |-> last,
                           publish |-> None, event |-> "line1"]
        ELSE [last_line_0 |-> None, last_keypad_message |-> last,
              publish |-> None, event |-> "line1"]

\* One iteration of the run loop as it would be if a line 1 left the pending
\* line 0 in place.
KeypadStep_KeepsLine0(line0, last, ret) ==
    LET keep(ev) == [last_line_0 |-> line0, last_keypad_message |-> last,
                     publish |-> None, event |-> ev]
        dec == decode_keypad_message(ret[2])
    IN  IF ret = None THEN keep("noframe")
        ELSE IF dec = None THEN keep("ignored")
        ELSE IF dec[2][2] = 0
          THEN [last_line_0 |-> Some(dec[2][3]), last_keypad_message |-> last,
                publish |-> None, event |-> "line0"]
        ELSE IF line0 # None
          THEN LET m == keypad_message(dec[2][1],
                                       keypad_entire_text(line0[2], dec[2][3]))
               IN  IF m # last
                     THEN [last_line_0 |-> line0, last_keypad_message |-> m,
                           publish |->
                              Some([message |-> m, level |-> keypad_level(m)]),
                           event |-> "line1"]
                     ELSE keep("line1")
        ELSE keep("line1")

\* Lines 206-232, one iteration of the run loop after read_message_vec
\* returned ret, with last_line_0 = line0 and last_keypad_message = last: the
\* new values of the two, the update to publish if any, and what the
\* iteration met ("noframe", "ignored": a frame that is no keypad message,
\* "line0", "line1").
KeypadStep(line0, last, ret) ==
    LET keep(ev) == [last_line_0 |-> line0, last_keypad_message |-> last,
                     publish |-> None, event |-> ev]
        dec == decode_keypad_message(ret[2])
    IN  IF ret = None THEN keep("noframe")
        ELSE IF dec = None THEN keep("ignored")
        ELSE IF dec[2][2] = 0
          THEN [last_line_0 |-> Some(dec[2][3]), last_keypad_message |-> last,
                publish |-> None, event |-> "line0"]
        ELSE IF line0 # None
          THEN LET m == keypad_message(dec[2][1],
                                       keypad_entire_text(line0[2], dec[2][3]))
               IN  IF m # last
                     THEN [last_line_0 |-> None, last_keypad_message |-> m,
                           publish |->
                              Some([message |-> m, level |-> keypad_level(m)]),
                           event |-> "line1"]
                     ELSE [last_line_0 |-> None, last_keypad_message |-> last,
                           publish |-> None, event |-> "line1"]
        ELSE [last_line_0 |-> None, last_keypad_message |-> last,
              publish |-> None, event |-> "line1"]

\* Bounds of the model: frames the bus carries in one behaviour of
\* MonitorSpec, the size and the number of the reads that return less than
\* is waiting, and the bytes that may still wait at the port when the bus
\* carries the next frame.
MaxFrames == 4
ShortRead == 13
MaxShortReads == 1
MaxWaiting == 14

\* A 16-byte keypad text: the characters, padded with spaces.
Text16(chars) == chars \o [i \in 1..(16 - Len(chars)) |-> 32]

\* A 27-byte bus frame: byte 1 declares the length, byte 4 is the message
\* type, byte 5 the line, bytes 8 and 9 the status, bytes 10..25 the text,
\* byte 26 the checksum.
BusFrame(type, line, status1, status2, text) ==
    LET body == <<16, 27, 0, 0, type, line, 0, 0, status1, status2>> \o text
    IN  body \o <<recieved_checksum(body, 26)>>

\* The frames the bus carries in the model.
FrameReady ==        \* line 0, (0x02, 0x00) Ready, "READY"
    BusFrame(1, 32, 2, 0, Text16(<<82, 69, 65, 68, 89>>))
FrameBlank ==        \* line 0, (0x02, 0x00) Ready, blank
    BusFrame(1, 32, 2, 0, Text16(<<>>))
FrameArmed ==        \* line 1, (0x01, 0x80) Armed, "SYSTEM ARMED"
    BusFrame(1, 96, 1, 128,
             Text16(<<83, 89, 83, 84, 69, 77, 32, 65, 82, 77, 69, 68>>))
FrameFire ==         \* line 1, (0x0A, 0xFF) unknown, "  Fire Alarm" 0xFF
    BusFrame(1, 96, 10, 255,
             Text16(<<32, 32, 70, 105, 114, 101, 32, 65, 108, 97, 114, 109,
                      255>>))
FrameOther ==        \* a 27-byte frame of another type
    BusFrame(2, 32, 2, 0, Text16(<<82, 69, 65, 68, 89>>))
BusFrames == {FrameReady, FrameBlank, FrameArmed, FrameFire, FrameOther}

\* More frames for the specifications that look at the pairing and at the
\* status label.
FrameReadyAlarm ==   \* line 0, (0x41, 0x81) ALARM, "READY"
    BusFrame(1, 32, 65, 129, Text16(<<82, 69, 65, 68, 89>>))
FrameZone ==         \* line 1, (0x41, 0x81) ALARM, "ZONE 3"
    BusFrame(1, 96, 65, 129, Text16(<<90, 79, 78, 69, 32, 51>>))
FrameOtherLine ==    \* a 27-byte frame of type 1 whose line byte is 0x40
    BusFrame(1, 64, 2, 0, Text16(<<82, 69, 65, 68, 89>>))
FrameShort ==        \* a 4-byte frame
    <<16, 4, 0, 20>>
PairingFrames ==
    {FrameReady, FrameArmed, FrameOther, FrameOtherLine, FrameShort}
LabelFrames == {FrameReady, FrameReadyAlarm, FrameArmed, FrameZone, FrameFire}

\* The bus carries one more frame to the open port.
BusSend(f) ==
    /\ port = <<"Ok">>
    /\ task_pc \in {"start", "while", "body", "yield"}
    /\ frames_sent < MaxFrames
    /\ Len(wire) <= MaxWaiting
    /\ wire' = wire \o f
    /\ frames_sent' = frames_sent + 1
    /\ UNCHANGED procVars
    /\ UNCHANGED <<btVars, taskVars, siVars, smVars, NEXT_DEVICE_ID, id, port,
                   short_reads, last_line_0, last_keypad_message, last_iter>>

\* What port.read can return in the monitor: a timeout, all the bytes that
\* are waiting, or a short read.
MonitorReads ==
    {<<"Err">>} \cup
    {<<"Ok", SubSeq(wire, 1, k)>> :
        k \in ({Len(wire)} \cup
                 (IF short_reads < MaxShortReads THEN {ShortRead} ELSE {}))
               \cap 1..Len(wire)}

\* NapcoGeminiDeviceMonitor::new with NapcoSerialInterface::new returning
\* open: the id is taken off NEXT_DEVICE_ID first (main.rs:74-82), then
\* try_spawn runs the factory, which opens the port; `?` passes its error on.
NapcoNew(open) ==
    /\ id' = NEXT_DEVICE_ID
    /\ NEXT_DEVICE_ID' = NEXT_DEVICE_ID + 1
    /\ port' = open
    /\ TrySpawn(IF open[1] = "Ok"
                  THEN [ok |-> TRUE, kind |-> "napco", value |-> "unit",
                        err |-> "-"]
                  ELSE [ok |-> FALSE, kind |-> "-", value |-> "-",
                        err |-> open[2]])
    /\ UNCHANGED procVars
    /\ UNCHANGED <<siVars, smVars, wire, frames_sent, short_reads,
                   last_line_0, last_keypad_message, last_iter>>

\* Lines 199-202: the task publishes its start and sets up the loop's locals.
NapcoStart ==
    /\ task_pc = "start"
    /\ SetSink(update_status(Sink, id, StartedMessage, "Info"))
    /\ last_line_0' = None
    /\ last_keypad_message' = <<>>
    /\ task_pc' = "while"
    /\ UNCHANGED procVars
    /\ UNCHANGED <<btVars, task_kind, task_value, observed, siVars,
                   NEXT_DEVICE_ID, id, port, wire, frames_sent, short_reads,
                   last_iter>>

\* The loop condition as it would be if the loop never looked at the token.
NapcoWhile_NoCheck ==
    /\ task_pc = "while"
    /\ observed' = FALSE
    /\ task_pc' = "body"
    /\ UNCHANGED <<btVars, task_kind, task_value, envVars>>

\* Line 204: while !shutdown_token.is_cancelled()
NapcoWhile ==
    /\ task_pc = "while"
    /\ observed' = (shutdown_token = "Cancelled")
    /\ task_pc' = IF shutdown_token = "Cancelled" THEN "stop" ELSE "body"
    /\ UNCHANGED <<btVars, task_kind, task_value, envVars>>

\* Lines 206-232, the loop body up to the yield: read_message_vec with the
\* port returning rd, the decoder, the merge and the publication.
NapcoBody(rd) ==
    /\ task_pc = "body"
    /\ Poll(rd)
    /\ wire' = IF rd[1] = "Ok" THEN SubSeq(wire, Len(rd[2]) + 1, Len(wire))
                               ELSE wire
    /\ short_reads' = IF rd[1] = "Ok" /\ Len(rd[2]) < Len(wire)
                        THEN short_reads + 1
                        ELSE short_reads
    /\ LET out == read_message_vec(buffer, buffer_len, error_count, rd)
           step == KeypadStep(last_line_0, last_keypad_message, out.ret)
       IN  /\ last_line_0' = step.last_line_0
           /\ last_keypad_message' = step.last_keypad_message
           /\ IF step.publish # None /\ ~out.panic
                THEN SetSink(update_status(Sink, id, step.publish[2].message,
                                           step.publish[2].level))
                ELSE UNCHANGED smVars
           /\ last_iter' = [event |-> step.event,
                            ret |-> out.ret,
                            pre_line_0 |-> last_line_0,
                            pre_last |-> last_keypad_message,
                            pre_count |-> IF id \in DOMAIN statuses
                                            THEN Len(statuses[id]) ELSE 0,
                            pre_sent |-> Len(status_chan) + Len(alarm_chan),
                            line0_frame |-> IF step.event = "line0"
                                              THEN out.ret
                                              ELSE last_iter.line0_frame,
                            pre_skipped |-> last_iter.skipped,
                            skipped |->
                               CASE step.event = "line0" -> Some(<<>>)
                                 [] step.event = "line1" -> None
                                 [] step.event = "ignored"
                                      /\ last_iter.skipped # None ->
                                      Some(Append(last_iter.skipped[2],
                                                  out.ret[2]))
                                 [] OTHER -> last_iter.skipped]
           /\ task_pc' = IF out.panic THEN "panicked" ELSE "yield"
    /\ UNCHANGED procVars
    /\ UNCHANGED <<btVars, task_kind, task_value, observed, NEXT_DEVICE_ID,
                   id, port, frames_sent>>

\* Line 235: tokio::task::yield_now().await
NapcoYield ==
    /\ task_pc = "yield"
    /\ task_pc' = "while"
    /\ UNCHANGED <<btVars, task_kind, task_value, observed, envVars>>

\* Line 238: the task publishes its stop and completes.
NapcoStop ==
    /\ task_pc = "stop"
    /\ SetSink(update_status(Sink, id, StoppedMessage, "Info"))
    /\ task_pc' = "done"
    /\ UNCHANGED procVars
    /\ UNCHANGED <<btVars, task_kind, task_value, observed, siVars, monVars>>

NapcoStep == NapcoStart \/ NapcoWhile \/ NapcoYield \/ NapcoStop
                \/ \E rd \in MonitorReads : NapcoBody(rd)

----------------------------------------------------------------------------
\* main (main.rs) and the dummy device (dummydevice.rs).

\* The variables of the other parts, which main and its devices leave alone.
napcoVars == <<id, port, wire, frames_sent, short_reads, last_line_0,
               last_keypad_message, last_iter>>
restVars == <<btVars, taskVars, siVars, napcoVars, callers>>

\* Bounds of the model: the threads that call DeviceId::default() and the
\* calls they make in all.
IdThreads == 3
MaxIds == 4

\* Bound of the model: the timers that elapse for one dummy device.
MaxRounds == 2

\* DeviceType (main.rs:39-61): a Dummy descriptor carries the states and the
\* period, a NapcoGemini descriptor the serial port.
Dummy(states, period) ==
    [type |-> "Dummy", states |-> states, period |-> period, port |-> "-"]
NapcoGemini(serial_port) ==
    [type |-> "NapcoGemini", states |-> <<>>, period |-> 0,
     port |-> serial_port]

\* The serial ports of the machine that can be opened.
OpenablePorts == {"ttyUSB0"}

\* "Ready"
Ready ==
    <<82, 101, 97, 100, 121>>
\* "INTRUSION"
Intrusion ==
    <<73, 78, 84, 82, 85, 83, 73, 79, 78>>
\* The descriptors of the model.
DummyCycle == Dummy(<<<<Ready, FALSE>>, <<Intrusion, TRUE>>>>, 1)
DummySingle == Dummy(<<<<Intrusion, TRUE>>>>, 0)
DummyEmpty == Dummy(<<>>, 1)
NapcoOpenable == NapcoGemini("ttyUSB0")
NapcoMissing == NapcoGemini("ttyS9")

\* CerberusConfig (main.rs:19-35): the devices and whether each notification
\* target is configured. The configurations of the model.
CerberusConfig(devs, status_target, alarm_target) ==
    [devices |-> devs, status_notification_target |-> status_target,
     alarm_notification_target |-> alarm_target]
Configs ==
    {CerberusConfig(<<DummyCycle>>, TRUE, TRUE),
     CerberusConfig(<<DummyEmpty, DummyCycle>>, FALSE, TRUE),
     CerberusConfig(<<DummySingle, NapcoOpenable, DummyCycle>>, TRUE, FALSE),
     CerberusConfig(<<NapcoMissing, DummySingle, DummyEmpty>>, FALSE, FALSE)}

\* "Dummy device monitor started."
DummyStarted ==
    <<68, 117, 109, 109, 121, 32, 100, 101, 118, 105, 99, 101, 32, 109, 111,
      110, 105, 116, 111, 114, 32, 115, 116, 97, 114, 116, 101, 100, 46>>
\* "Dummy device monitor stopped."
DummyStopped ==
    <<68, 117, 109, 109, 121, 32, 100, 101, 118, 105, 99, 101, 32, 109, 111,
      110, 105, 116, 111, 114, 32, 115, 116, 111, 112, 112, 101, 100, 46>>
\* "Cerberus monitor started."
CerberusStarted ==
    <<67, 101, 114, 98, 101, 114, 117, 115, 32, 109, 111, 110, 105, 116, 111,
      114, 32, 115, 116, 97, 114, 116, 101, 100, 46>>
\* "No status notification target configured, status updates will not be sent."
NoStatusTarget ==
    <<78, 111, 32, 115, 116, 97, 116, 117, 115, 32, 110, 111, 116, 105, 102,
      105, 99, 97, 116, 105, 111, 110, 32, 116, 97, 114, 103, 101, 116, 32,
      99, 111, 110, 102, 105, 103, 117, 114, 101, 100, 44, 32, 115, 116, 97,
      116, 117, 115, 32, 117, 112, 100, 97, 116, 101, 115, 32, 119, 105, 108,
      108, 32, 110, 111, 116, 32, 98, 101, 32, 115, 101, 110, 116, 46>>
\* "No alarm notification target configured, alarm updates will not be sent!"
NoAlarmTarget ==
    <<78, 111, 32, 97, 108, 97, 114, 109, 32, 110, 111, 116, 105, 102, 105,
      99, 97, 116, 105, 111, 110, 32, 116, 97, 114, 103, 101, 116, 32, 99,
      111, 110, 102, 105, 103, 117, 114, 101, 100, 44, 32, 97, 108, 97, 114,
      109, 32, 117, 112, 100, 97, 116, 101, 115, 32, 119, 105, 108, 108, 32,
      110, 111, 116, 32, 98, 101, 32, 115, 101, 110, 116, 33>>
\* "Could not start status web server: "
CouldNotServe ==
    <<67, 111, 117, 108, 100, 32, 110, 111, 116, 32, 115, 116, 97, 114, 116,
      32, 115, 116, 97, 116, 117, 115, 32, 119, 101, 98, 32, 115, 101, 114,
      118, 101, 114, 58, 32>>
\* "Address already in use"
AddrInUse ==
    <<65, 100, 100, 114, 101, 115, 115, 32, 97, 108, 114, 101, 97, 100, 121,
      32, 105, 110, 32, 117, 115, 101>>
\* "Could not create device monitor: "
CouldNotCreate ==
    <<67, 111, 117, 108, 100, 32, 110, 111, 116, 32, 99, 114, 101, 97, 116,
      101, 32, 100, 101, 118, 105, 99, 101, 32, 109, 111, 110, 105, 116, 111,
      114, 58, 32>>
\* "dummy device must have at least one state"
EmptyStatesError ==
    <<100, 117, 109, 109, 121, 32, 100, 101, 118, 105, 99, 101, 32, 109, 117,
      115, 116, 32, 104, 97, 118, 101, 32, 97, 116, 32, 108, 101, 97, 115,
      116, 32, 111, 110, 101, 32, 115, 116, 97, 116, 101>>
\* "Napco Gemini device monitor not implmented"
NotImplementedError ==
    <<78, 97, 112, 99, 111, 32, 71, 101, 109, 105, 110, 105, 32, 100, 101,
      118, 105, 99, 101, 32, 109, 111, 110, 105, 116, 111, 114, 32, 110, 111,
      116, 32, 105, 109, 112, 108, 109, 101, 110, 116, 101, 100>>
\* "Device"
DeviceName ==
    <<68, 101, 118, 105, 99, 101>>
\* StatusManager::new took the first id for the log device (status.rs:52).
log_device_id == 1

\* StatusManager::log (status.rs:114-122) on the sink sm.
log(sm, message, level) == update_status(sm, log_device_id, message, level)

\* StatusManager::register_device (status.rs:67-70) on the sink sm.
register_device(sm, device_id) ==
    [sm EXCEPT !.devices = Append(@, <<device_id, DeviceName>>)]

\* DummyDeviceMonitor::new as it would be if the id were taken before the
\* state list is looked at.
DummyNew_IdFirst(next_id, states, period) ==
    IF Len(states) = 0
      THEN [result |-> <<"Err", EmptyStatesError>>,
            NEXT_DEVICE_ID |-> next_id + 1, monitor |-> None]
      ELSE [result |-> <<"Ok">>, NEXT_DEVICE_ID |-> next_id + 1,
            monitor |->
               Some([id |-> next_id, kind |-> "dummy", states |-> states,
                     period |-> period, shutdown_token |-> "Active",
                     shutdown_dropguard |-> "Armed", join_handle |-> "Some",
                     task_pc |-> "start", current_state |-> 0,
                     sleep |-> "none", rounds |-> 0,
                     finish_result |-> <<"None">>,
                     shutdown_result |-> <<"NotCalled">>])]

\* DummyDeviceMonitor::new (dummydevice.rs:14-58) when the counter stands at
\* next_id: an empty state list bails before anything else; otherwise the id
\* is taken off the counter and BackgroundTask::spawn builds the token, the
\* armed guard and the join handle of the future, which has not run yet.
DummyNew(next_id, states, period) ==
    IF Len(states) = 0
      THEN [result |-> <<"Err", EmptyStatesError>>,
            NEXT_DEVICE_ID |-> next_id, monitor |-> None]
      ELSE [result |-> <<"Ok">>, NEXT_DEVICE_ID |-> next_id + 1,
            monitor |->
               Some([id |-> next_id, kind |-> "dummy", states |-> states,
                     period |-> period, shutdown_token |-> "Active",
                     shutdown_dropguard |-> "Armed", join_handle |-> "Some",
                     task_pc |-> "start", current_state |-> 0,
                     sleep |-> "none", rounds |-> 0,
                     finish_result |-> <<"None">>,
                     shutdown_result |-> <<"NotCalled">>])]

\* create_device_monitor (main.rs:95-104): a Dummy descriptor goes to
\* DummyDeviceMonitor::new, whose error `?` passes on; a NapcoGemini
\* descriptor bails, whatever its port.
create_device_monitor(next_id, device_config) ==
    IF device_config.type = "Dummy"
      THEN DummyNew(next_id, device_config.states, device_config.period)
      ELSE [result |-> <<"Err", NotImplementedError>>,
            NEXT_DEVICE_ID |-> next_id, monitor |-> None]

\* The entries the sink holds for a device id.
EntriesOf(sm, device_id) ==
    IF device_id \in DOMAIN sm.statuses THEN sm.statuses[device_id] ELSE <<>>

\* What the serve() call of main can return (status.rs:125-160): Ok, or the
\* error of a bind that failed.
ServeResults == {<<"Ok">>, <<"Err", AddrInUse>>}

\* main.rs:165-178: main logs its start, warns about each notification
\* target the configuration cfg lacks, and starts the status server, whose
\* failure is a warning. No device exists yet.
MainStartup(cfg, served) ==
    /\ main_pc = "startup"
    /\ LET s1 == log(Sink, CerberusStarted, "Status")
           s2 == IF cfg.status_notification_target
                   THEN s1 ELSE log(s1, NoStatusTarget, "Warning")
           s3 == IF cfg.alarm_notification_target
                   THEN s2 ELSE log(s2, NoAlarmTarget, "Warning")
           s4 == IF served[1] = "Ok"
                   THEN s3 ELSE log(s3, CouldNotServe \o served[2], "Warning")
       IN  SetSink(s4)
    /\ config' = cfg
    /\ main_pc' = IF Len(cfg.devices) = 0 THEN "wait" ELSE "create"
    /\ UNCHANGED <<NEXT_DEVICE_ID, next_config, mons, main_devices,
                   teardown_i, last_create, restVars>>

\* The creation loop as it would be if an error ended it.
MainCreate_StopsAtError ==
    /\ main_pc = "create"
    /\ LET device_config == config.devices[next_config]
           made == create_device_monitor(NEXT_DEVICE_ID, device_config)
           ok == made.result[1] = "Ok"
           sm == IF ok THEN Sink
                       ELSE log(Sink, CouldNotCreate \o made.result[2],
                                "Alarm")
       IN  /\ NEXT_DEVICE_ID' = made.NEXT_DEVICE_ID
           /\ mons' = IF ok THEN Append(mons, made.monitor[2]) ELSE mons
           /\ SetSink(sm)
           /\ main_pc' = IF ok THEN "register" ELSE "wait"
           /\ next_config' = IF ok THEN next_config ELSE next_config + 1
           /\ last_create' =
                 [index |-> next_config, device_config |-> device_config,
                  result |-> made.result, pre_next_id |-> NEXT_DEVICE_ID,
                  pre_mons |-> Len(mons), pre_devices |-> Len(devices),
                  pre_list |-> Len(main_devices),
                  published |->
                     {d \in DOMAIN sm.statuses :
                         Len(EntriesOf(sm, d)) > Len(EntriesOf(Sink, d))}]
    /\ UNCHANGED <<config, main_devices, teardown_i, restVars>>

\* main.rs:182-183 and 190-192: the loop takes the next descriptor and calls
\* create_device_monitor; an error is logged as an alarm and the loop goes
\* on to the next descriptor.
MainCreate ==
    /\ main_pc = "create"
    /\ LET device_config == config.devices[next_config]
           made == create_device_monitor(NEXT_DEVICE_ID, device_config)
           ok == made.result[1] = "Ok"
           sm == IF ok THEN Sink
                       ELSE log(Sink, CouldNotCreate \o made.result[2],
                                "Alarm")
       IN  /\ NEXT_DEVICE_ID' = made.NEXT_DEVICE_ID
           /\ mons' = IF ok THEN Append(mons, made.monitor[2]) ELSE mons
           /\ SetSink(sm)
           /\ main_pc' = IF ok THEN "register"
                         ELSE IF next_config < Len(config.devices)
                                THEN "create" ELSE "wait"
           /\ next_config' = IF ok THEN next_config ELSE next_config + 1
           /\ last_create' =
                 [index |-> next_config, device_config |-> device_config,
                  result |-> made.result, pre_next_id |-> NEXT_DEVICE_ID,
                  pre_mons |-> Len(mons), pre_devices |-> Len(devices),
                  pre_list |-> Len(main_devices),
                  published |->
                     {d \in DOMAIN sm.statuses :
                         Len(EntriesOf(sm, d)) > Len(EntriesOf(Sink, d))}]
    /\ UNCHANGED <<config, main_devices, teardown_i, restVars>>

\* main.rs:185-189: the monitor just created is registered with the status
\* manager and pushed on the device list. Its task may have run before.
MainRegister ==
    /\ main_pc = "register"
    /\ SetSink(register_device(Sink, mons[Len(mons)].id))
    /\ main_devices' = Append(main_devices, Len(mons))
    /\ next_config' = next_config + 1
    /\ main_pc' = IF next_config < Len(config.devices) THEN "create"
                                                       ELSE "wait"
    /\ UNCHANGED <<NEXT_DEVICE_ID, config, mons, teardown_i, last_create,
                   restVars>>

\* main.rs:197: the termination signal arrives.
MainCtrlC ==
    /\ main_pc = "wait"
    /\ main_pc' = "teardown"
    /\ UNCHANGED <<NEXT_DEVICE_ID, smVars, config, next_config, mons,
                   main_devices, teardown_i, last_create, restVars>>

\* main.rs:200-201: the teardown loop takes the next device and calls its
\* shutdown, which calls finish; finish first cancels the token
\* (backgroundtask.rs:51).
MainShutdownCancel ==
    /\ main_pc = "teardown"
    /\ teardown_i <= Len(main_devices)
    /\ mons' = [mons EXCEPT ![main_devices[teardown_i]] =
                  [@ EXCEPT !.shutdown_token = "Cancelled",
                            !.shutdown_result = <<"Called">>]]
    /\ main_pc' = "f_take"
    /\ UNCHANGED <<NEXT_DEVICE_ID, smVars, config, next_config, main_devices,
                   teardown_i, last_create, restVars>>

\* finish, backgroundtask.rs:52-61: the guard is taken and disarmed, the join
\* handle is taken; without a handle finish bails and shutdown returns.
MainShutdownTake ==
    /\ main_pc = "f_take"
    /\ LET k == main_devices[teardown_i]
       IN  IF mons[k].join_handle = "Some"
             THEN /\ mons' = [mons EXCEPT ![k] =
                                [@ EXCEPT !.shutdown_dropguard = "None",
                                          !.join_handle = "None"]]
                  /\ main_pc' = "f_join"
                  /\ UNCHANGED teardown_i
             ELSE /\ mons' = [mons EXCEPT ![k] =
                                [@ EXCEPT !.shutdown_dropguard = "None",
                                          !.finish_result =
                                             <<"Err", "task already finished">>,
                                          !.shutdown_result =
                                             shutdown(<<"Err",
                                                "task already finished">>)]]
                  /\ main_pc' = "teardown"
                  /\ teardown_i' = teardown_i + 1
    /\ UNCHANGED <<NEXT_DEVICE_ID, smVars, config, next_config, main_devices,
                   last_create, restVars>>

\* The end of a shutdown call as it would be if shutdown passed the error of
\* finish on and main ended on it.
MainShutdownJoin_Escalates ==
    /\ main_pc = "f_join"
    /\ LET k == main_devices[teardown_i]
           finish_result == IF mons[k].task_pc = "done"
                              THEN <<"Ok", "unit">>
                              ELSE <<"Err", "JoinError">>
       IN  /\ mons[k].task_pc \in {"done", "panicked"}
           /\ mons' = [mons EXCEPT ![k] =
                         [@ EXCEPT !.finish_result = finish_result,
                                   !.shutdown_result =
                                      shutdown_Propagates(finish_result)]]
           /\ main_pc' = IF finish_result[1] = "Ok" THEN "teardown"
                                                    ELSE "exit"
    /\ teardown_i' = teardown_i + 1
    /\ UNCHANGED <<NEXT_DEVICE_ID, smVars, config, next_config, main_devices,
                   last_create, restVars>>

\* finish, backgroundtask.rs:58: the join handle is awaited; it completes once
\* the future has completed or panicked. shutdown drops what finish returned
\* and returns, the device is dropped, and the loop goes on (main.rs:200-202).
MainShutdownJoin ==
    /\ main_pc = "f_join"
    /\ LET k == main_devices[teardown_i]
           finish_result == IF mons[k].task_pc = "done"
                              THEN <<"Ok", "unit">>
                              ELSE <<"Err", "JoinError">>
       IN  /\ mons[k].task_pc \in {"done", "panicked"}
           /\ mons' = [mons EXCEPT ![k] =
                         [@ EXCEPT !.finish_result = finish_result,
                                   !.shutdown_result =
                                      shutdown(finish_result)]]
    /\ main_pc' = "teardown"
    /\ teardown_i' = teardown_i + 1
    /\ UNCHANGED <<NEXT_DEVICE_ID, smVars, config, next_config, main_devices,
                   last_create, restVars>>

\* main.rs:204: std::process::exit(0) once every device was shut down; no
\* task runs after it.
MainExit ==
    /\ main_pc = "teardown"
    /\ teardown_i > Len(main_devices)
    /\ main_pc' = "exit"
    /\ UNCHANGED <<NEXT_DEVICE_ID, smVars, config, next_config, mons,
                   main_devices, teardown_i, last_create, restVars>>

\* What a step of a device's task leaves alone.
TaskFrame ==
    UNCHANGED <<NEXT_DEVICE_ID, main_pc, config, next_config, main_devices,
                teardown_i, last_create, restVars>>

\* The task of monitor k exists and the process has not exited.
Alive(k) == k \in 1..Len(mons) /\ main_pc # "exit"

\* dummydevice.rs:23-25: the task publishes its start.
DummyStart(k) ==
    /\ Alive(k) /\ mons[k].kind = "dummy" /\ mons[k].task_pc = "start"
    /\ SetSink(update_status(Sink, mons[k].id, DummyStarted, "Info"))
    /\ mons' = [mons EXCEPT ![k] = [@ EXCEPT !.task_pc = "publish",
                                             !.current_state = 0]]
    /\ TaskFrame

\* The publication as it would be if every state went out at Status level.
DummyPublish_AlwaysStatus(k) ==
    /\ Alive(k) /\ mons[k].kind = "dummy" /\ mons[k].task_pc = "publish"
    /\ LET state == mons[k].states[mons[k].current_state + 1]
       IN  SetSink(update_status(Sink, mons[k].id, state[1], "Status"))
    /\ mons' = [mons EXCEPT ![k] = [@ EXCEPT !.task_pc = "select",
                                             !.sleep = "pending"]]
    /\ TaskFrame

\* dummydevice.rs:28-35: the task publishes states[current_state], as an
\* alarm when its flag is set and as a status otherwise, and starts the sleep
\* of one period.
DummyPublish(k) ==
    /\ Alive(k) /\ mons[k].kind = "dummy" /\ mons[k].task_pc = "publish"
    /\ LET state == mons[k].states[mons[k].current_state + 1]
       IN  SetSink(update_status(Sink, mons[k].id, state[1],
                                 IF state[2] THEN "Alarm" ELSE "Status"))
    /\ mons' = [mons EXCEPT ![k] = [@ EXCEPT !.task_pc = "select",
                                             !.sleep = "pending"]]
    /\ TaskFrame

\* The period of monitor k's sleep has passed.
TimerElapse(k) ==
    /\ Alive(k) /\ mons[k].kind = "dummy" /\ mons[k].sleep = "pending"
    /\ mons[k].rounds < MaxRounds
    /\ mons' = [mons EXCEPT ![k] = [@ EXCEPT !.sleep = "elapsed"]]
    /\ UNCHANGED smVars
    /\ TaskFrame

\* dummydevice.rs:37-47, tokio::select!: the branch of the sleep can be taken
\* once the period has passed and moves on to the next state, wrapping after
\* the last; the branch of the token can be taken once it is cancelled and
\* leaves the loop. When both are ready either may be taken.
DummySelect(k, branch) ==
    /\ Alive(k) /\ mons[k].kind = "dummy" /\ mons[k].task_pc = "select"
    /\ \/ /\ branch = "next_state"
          /\ mons[k].sleep = "elapsed"
          /\ mons' = [mons EXCEPT ![k] =
                        [@ EXCEPT !.current_state =
                                     IF @ + 1 >= Len(mons[k].states)
                                       THEN 0 ELSE @ + 1,
                                  !.rounds = @ + 1,
                                  !.sleep = "none",
                                  !.task_pc = "publish"]]
       \/ /\ branch = "cancelled"
          /\ mons[k].shutdown_token = "Cancelled"
          /\ mons' = [mons EXCEPT ![k] = [@ EXCEPT !.sleep = "none",
                                                   !.task_pc = "stop"]]
    /\ UNCHANGED smVars
    /\ TaskFrame

\* dummydevice.rs:50: the task publishes its stop and completes.
DummyStop(k) ==
    /\ Alive(k) /\ mons[k].kind = "dummy" /\ mons[k].task_pc = "stop"
    /\ SetSink(update_status(Sink, mons[k].id, DummyStopped, "Info"))
    /\ mons' = [mons EXCEPT ![k] = [@ EXCEPT !.task_pc = "done"]]
    /\ TaskFrame

\* Bound of the model: the devices of a device list whose monitors are
\* arbitrary implementations of DeviceMonitor.
MaxDevices == 3

\* What the future of an arbitrary DeviceMonitor's BackgroundTask can be like:
\* it completes once it observes the cancellation, it fails (panics), or it
\* never observes the cancellation and never completes.
GenericKinds == {"cooperative", "failing", "deaf"}
DeviceLists == UNION {[1..n -> GenericKinds] : n \in 1..MaxDevices}

\* A monitor of an arbitrary DeviceMonitor implementation (main.rs:84-92)
\* right after its construction: its id, and the BackgroundTask that spawn
\* built around its future (backgroundtask.rs:18-28).
GenericMonitor(device_id, kind) ==
    [id |-> device_id, kind |-> kind, states |-> <<>>, period |-> 0,
     shutdown_token |-> "Active", shutdown_dropguard |-> "Armed",
     join_handle |-> "Some", task_pc |-> "run", current_state |-> 0,
     sleep |-> "none", rounds |-> 0, finish_result |-> <<"None">>,
     shutdown_result |-> <<"NotCalled">>]

\* main up to line 194 with a creation loop that built, registered and
\* pushed one monitor of the given kind for each descriptor.
MainWith(kinds) ==
    /\ main_pc = "startup"
    /\ mons' = [i \in 1..Len(kinds) |->
                  GenericMonitor(NEXT_DEVICE_ID + i - 1, kinds[i])]
    /\ main_devices' = [i \in 1..Len(kinds) |-> i]
    /\ NEXT_DEVICE_ID' = NEXT_DEVICE_ID + Len(kinds)
    /\ devices' = devices \o [i \in 1..Len(kinds) |->
                                <<NEXT_DEVICE_ID + i - 1, DeviceName>>]
    /\ main_pc' = "wait"
    /\ UNCHANGED <<statuses, status_chan, alarm_chan, config, next_config,
                   teardown_i, last_create, restVars>>

\* A step of the future of monitor k: a cooperative one completes once the
\* token is cancelled, a failing one panics, a deaf one does neither.
GenericTask(k) ==
    /\ Alive(k) /\ mons[k].kind \in GenericKinds /\ mons[k].task_pc = "run"
    /\ \/ /\ mons[k].kind = "cooperative"
          /\ mons[k].shutdown_token = "Cancelled"
          /\ mons' = [mons EXCEPT ![k] = [@ EXCEPT !.task_pc = "done"]]
       \/ /\ mons[k].kind = "failing"
          /\ mons' = [mons EXCEPT ![k] = [@ EXCEPT !.task_pc = "panicked"]]
    /\ UNCHANGED smVars
    /\ TaskFrame

----------------------------------------------------------------------------
\* DeviceId::default() on several threads (main.rs:63-82).

\* The ids handed out so far, over all callers.
IdCalls == {<<t, i>> : t \in 1..IdThreads, i \in 1..MaxIds}
Handed == {c \in IdCalls : c[2] <= Len(callers[c[1]].ids)}
Pending == {t \in 1..IdThreads : callers[t].pc # "idle"}

\* DeviceId::default as it would be with a load and a store in place of the
\* fetch_add.
IdDefault_Torn(t, built) ==
    /\ IF callers[t].pc = "idle"
         THEN /\ Cardinality(Handed) + Cardinality(Pending) < MaxIds
              /\ callers' = [callers EXCEPT ![t] =
                               [@ EXCEPT !.pc = "loaded",
                                         !.loaded = NEXT_DEVICE_ID]]
              /\ UNCHANGED NEXT_DEVICE_ID
         ELSE /\ NEXT_DEVICE_ID' = callers[t].loaded + 1
              /\ callers' = [callers EXCEPT ![t] =
                               [@ EXCEPT !.pc = "idle",
                                         !.ids = Append(@, <<callers[t].loaded,
                                                             built>>)]]
    /\ UNCHANGED <<btVars, taskVars, siVars, napcoVars, smVars, mainVars>>

\* DeviceId::default (main.rs:74-82) on thread t:
\* NEXT_DEVICE_ID.fetch_add(1, Ordering::Relaxed) returns the counter and
\* adds one to it in one atomic step. `built` is whether the construction
\* that took the id then succeeded (NapcoGeminiDeviceMonitor::new fails after
\* it took its id when the port does not open); the counter is left as it is
\* either way. The u64 counter would wrap after 2^64 calls.
IdDefault(t, built) ==
    /\ callers[t].pc = "idle"
    /\ Cardinality(Handed) < MaxIds
    /\ callers' = [callers EXCEPT ![t] =
                     [@ EXCEPT !.ids = Append(@, <<NEXT_DEVICE_ID, built>>)]]
    /\ NEXT_DEVICE_ID' = NEXT_DEVICE_ID + 1
    /\ UNCHANGED <<btVars, taskVars, siVars, napcoVars, smVars, mainVars>>

----------------------------------------------------------------------------
\* The process with its id counter at next_id and the devices devs
\* registered, and nothing else done.
ProcessInit(next_id, devs) ==
    /\ shutdown_token = "NoToken"
    /\ shutdown_dropguard = "None"
    /\ join_handle = "None"
    /\ owner_pc = "init"
    /\ spawn_result = <<"None">>
    /\ finish_results = <<>>
    /\ shutdown_results = <<>>
    /\ task_pc = "none"
    /\ task_kind = "-"
    /\ task_value = "-"
    /\ observed = FALSE
    /\ buffer = <<>>
    /\ buffer_len = 0
    /\ error_count = 0
    /\ bus_count = 0
    /\ last_poll = [pre |-> <<>>, pre_err |-> 0, read |-> <<"NotCalled">>,
                    ret |-> <<"NotCalled">>, prev_ret |-> <<"NotCalled">>,
                    panic |-> FALSE, stale |-> FALSE, accepted |-> <<>>,
                    log |-> <<>>]
    /\ NEXT_DEVICE_ID = next_id
    /\ id = 0
    /\ port = <<"Unopened">>
    /\ wire = <<>>
    /\ frames_sent = 0
    /\ short_reads = 0
    /\ last_line_0 = None
    /\ last_keypad_message = <<>>
    /\ last_iter = [event |-> "none", ret |-> None, pre_line_0 |-> None,
                    pre_last |-> <<>>, pre_count |-> 0, pre_sent |-> 0,
                    line0_frame |-> None, pre_skipped |-> None,
                    skipped |-> None]
    /\ devices = devs
    /\ statuses = <<>>
    /\ status_chan = <<>>
    /\ alarm_chan = <<>>
    /\ main_pc = "startup"
    /\ config = CerberusConfig(<<>>, FALSE, FALSE)
    /\ next_config = 1
    /\ mons = <<>>
    /\ main_devices = <<>>
    /\ teardown_i = 1
    /\ last_create = [index |-> 0, device_config |-> NapcoGemini("-"),
                      result |-> <<"None">>, pre_next_id |-> 0,
                      pre_mons |-> 0, pre_devices |-> 0, pre_list |-> 0,
                      published |-> {}]
    /\ callers = [t \in 1..IdThreads |->
                    [pc |-> "idle", loaded |-> 0, ids |-> <<>>]]

\* The state after StatusManager::new, which took id 1 for the log device
\* and registered it as "Log" (status.rs:49-64).
Init == ProcessInit(2, <<<<log_device_id, <<76, 111, 103>>>>>>)

\* The state at the start of the process: the counter is AtomicU64::new(1)
\* (main.rs:63-68) and nothing is registered.
IdInit == ProcessInit(1, <<>>)

Next ==
    \/ \E k \in TaskKinds, v \in Results :
          Spawn(k, v) /\ UNCHANGED envVars
    \/ \E fr \in FactoryResults :
          TrySpawn(fr) /\ UNCHANGED envVars
    \/ FinishCancel
    \/ FinishTake
    \/ FinishJoin
    \/ DropHandle
    \/ TaskCheck
    \/ TaskWork
    \/ TaskComplete
    \/ TaskPanic

Spec == Init /\ [][Next]_vars

\* The tokio runtime keeps polling a spawned future that is ready to run.
FairSpec == Spec /\ WF_vars(TaskStep)

\* The framer alone, after NapcoSerialInterface::new.
FramerNext == FramerPoll

FramerSpec == Init /\ [][FramerNext]_vars

\* The framer on a port that always has more waiting than the buffer has
\* room for, until it has handed over MaxBurst bytes: every read fills the
\* buffer to its capacity. What a read returns is 4-byte frames one after
\* the other ("frames"), the same behind LateNoise bytes of 0xFF ("late"),
\* or the same with 0xFF in its last NoiseTail bytes ("noisy"). Once the
\* port has run dry every read times out.
MaxRefill == 4
LateNoise == 2
NoiseTail == 31
MaxBurst == BUFFER_CAP + MaxRefill
BurstKinds == {"frames", "late", "noisy"}
Burst(kind, n) ==
    [j \in 1..n |->
       CASE kind = "late" /\ j <= LateNoise -> 255
         [] kind = "late" /\ j > LateNoise ->
              FrameShort[((j - LateNoise - 1) % Len(FrameShort)) + 1]
         [] kind = "noisy" /\ j > n - NoiseTail -> 255
         [] OTHER -> FrameShort[((j - 1) % Len(FrameShort)) + 1]]
BurstReads ==
    IF bus_count < MaxBurst
      THEN {<<"Ok", Burst(kind, Min(BUFFER_CAP - buffer_len,
                                    MaxBurst - bus_count))>> :
               kind \in BurstKinds}
      ELSE {<<"Err">>}

BurstPoll ==
    /\ \E rd \in BurstReads : Poll(rd)
    /\ UNCHANGED <<btVars, taskVars, monVars, smVars, procVars>>

BurstNext == BurstPoll

BurstSpec == Init /\ [][BurstNext]_vars

\* The Napco monitor: construction, the task, the bus, and the owner calling
\* shutdown (finish with the result dropped) or dropping the monitor.
MonitorNext ==
    \/ \E open \in {<<"Ok">>} \cup {<<"Err", e>> : e \in FactoryErrors} :
          NapcoNew(open)
    \/ NapcoStart
    \/ NapcoWhile
    \/ \E rd \in MonitorReads : NapcoBody(rd)
    \/ NapcoYield
    \/ NapcoStop
    \/ \E f \in BusFrames : BusSend(f)
    \/ FinishCancel
    \/ FinishTake
    \/ FinishJoin
    \/ DropHandle

MonitorSpec == Init /\ [][MonitorNext]_vars

\* The monitor on a bus that carries frames that are no keypad messages
\* between the lines of the display.
PairingNext ==
    \/ \E open \in {<<"Ok">>} \cup {<<"Err", e>> : e \in FactoryErrors} :
          NapcoNew(open)
    \/ NapcoStart
    \/ NapcoWhile
    \/ \E rd \in MonitorReads : NapcoBody(rd)
    \/ NapcoYield
    \/ NapcoStop
    \/ \E f \in PairingFrames : BusSend(f)
    \/ FinishCancel
    \/ FinishTake
    \/ FinishJoin
    \/ DropHandle

PairingSpec == Init /\ [][PairingNext]_vars

\* The monitor on a bus whose frames differ in their status bytes.
LabelNext ==
    \/ \E open \in {<<"Ok">>} \cup {<<"Err", e>> : e \in FactoryErrors} :
          NapcoNew(open)
    \/ NapcoStart
    \/ NapcoWhile
    \/ \E rd \in MonitorReads : NapcoBody(rd)
    \/ NapcoYield
    \/ NapcoStop
    \/ \E f \in LabelFrames : BusSend(f)
    \/ FinishCancel
    \/ FinishTake
    \/ FinishJoin
    \/ DropHandle

LabelSpec == Init /\ [][LabelNext]_vars

\* main with the devices of its configuration: the startup, the creation
\* loop, the termination signal, the teardown loop, and the dummy tasks.
MainNext ==
    \/ \E cfg \in Configs, served \in ServeResults : MainStartup(cfg, served)
    \/ MainCreate
    \/ MainRegister
    \/ MainCtrlC
    \/ MainShutdownCancel
    \/ MainShutdownTake
    \/ MainShutdownJoin
    \/ MainExit
    \/ \E k \in 1..Len(mons) :
          \/ DummyStart(k)
          \/ DummyPublish(k)
          \/ TimerElapse(k)
          \/ \E branch \in {"next_state", "cancelled"} : DummySelect(k, branch)
          \/ DummyStop(k)

MainSpec == Init /\ [][MainNext]_vars

\* Threads calling DeviceId::default().
IdNext == \E t \in 1..IdThreads, built \in BOOLEAN : IdDefault(t, built)

IdSpec == IdInit /\ [][IdNext]_vars

\* The teardown of main over a device list of arbitrary monitors.
TeardownNext ==
    \/ \E kinds \in DeviceLists : MainWith(kinds)
    \/ MainCtrlC
    \/ MainShutdownCancel
    \/ MainShutdownTake
    \/ MainShutdownJoin
    \/ MainExit
    \/ \E k \in 1..Len(mons) : GenericTask(k)

\* The steps of main in the teardown loop.
MainTeardown ==
    MainShutdownCancel \/ MainShutdownTake \/ MainShutdownJoin \/ MainExit

\* The tokio runtime keeps polling main and every spawned future that is
\* ready to run.
TeardownFairSpec ==
    /\ Init /\ [][TeardownNext]_vars
    /\ WF_vars(MainTeardown)
    /\ \A k \in 1..MaxDevices : WF_vars(GenericTask(k))

\* Bound of the model: frames the bus carries in one behaviour of
\* MonitorFairSpec.
MaxLiveFrames == 2

\* The monitor on a bus that carries a line 0 and a line 1.
MonitorLiveNext ==
    \/ \E open \in {<<"Ok">>} \cup {<<"Err", e>> : e \in FactoryErrors} :
          NapcoNew(open)
    \/ NapcoStart
    \/ NapcoWhile
    \/ \E rd \in MonitorReads : NapcoBody(rd)
    \/ NapcoYield
    \/ NapcoStop
    \/ \E f \in {FrameReady, FrameArmed} :
          frames_sent < MaxLiveFrames /\ BusSend(f)
    \/ FinishCancel
    \/ FinishTake
    \/ FinishJoin
    \/ DropHandle

\* The steps of the task outside the loop body.
NapcoControl == NapcoStart \/ NapcoWhile \/ NapcoYield \/ NapcoStop

\* The tokio runtime keeps polling the monitor task: it is ready again right
\* after its yield, and the port read returns within its timeout. The loop
\* body is enabled exactly when task_pc = "body" and is the only step that
\* leaves that state, so weak fairness of the body is []<>(task_pc # "body").
MonitorFairSpec ==
    /\ Init /\ [][MonitorLiveNext]_vars
    /\ WF_vars(NapcoControl)
    /\ []<>(task_pc # "body")

----------------------------------------------------------------------------
\* Claims about BackgroundTask (Spec, FairSpec).

\* C1: once the first finish() call is past its synchronous part the token is
\* Cancelled and the guard is gone; finish has returned only if the future
\* has completed, Ok exactly when it ran to completion and then with the
\* future's own value; no call returns Ok while the future still runs.
C1_FinishAwaitsTask ==
    /\ (owner_pc = "f_join" \/ Len(finish_results) >= 1)
          => shutdown_token = "Cancelled" /\ shutdown_dropguard = "None"
    /\ Len(finish_results) >= 1
          => /\ task_pc \in {"done", "panicked"}
             /\ finish_results[1] =
                   IF task_pc = "done" THEN <<"Ok", task_value>>
                                       ELSE <<"Err", "JoinError">>
    /\ \A i \in 1..Len(finish_results) :
          finish_results[i][1] = "Ok" => task_pc = "done"

\* C1 witness: the first finish() returned the value of a cooperative future
\* that saw the cancellation.
C1_Witness ==
    /\ Len(finish_results) >= 1
    /\ finish_results[1] = <<"Ok", task_value>>
    /\ task_kind = "cooperative"
    /\ observed

DroppedUnfinished == owner_pc = "dropped" /\ finish_results = <<>>

\* C2: a handle dropped with finish() never called leaves the token
\* Cancelled, and a cooperative future then observes the cancellation (or
\* has panicked) under fair scheduling.
C2_DropCancels ==
    /\ [](DroppedUnfinished => shutdown_token = "Cancelled")
    /\ ((DroppedUnfinished /\ task_kind = "cooperative")
           ~> (observed \/ task_pc = "panicked"))

\* C2 witness: after such a drop the cooperative future has seen the token
\* cancelled and returned.
C2_Witness ==
    /\ DroppedUnfinished
    /\ task_kind = "cooperative"
    /\ observed
    /\ task_pc = "done"

\* C3: every finish() call after the first fails with "task already
\* finished", and only the first call ever waits for the future.
C3_SecondFinishFails ==
    /\ \A i \in 2..Len(finish_results) :
          finish_results[i] = <<"Err", "task already finished">>
    /\ owner_pc = "f_join" => finish_results = <<>>

\* C3 witness: a first call returned the future's value and a second call
\* failed.
C3_Witness ==
    /\ Len(finish_results) >= 2
    /\ finish_results[1][1] = "Ok"
    /\ finish_results[2] = <<"Err", "task already finished">>

----------------------------------------------------------------------------
\* Claims about the framer (FramerSpec). They read the last call off
\* last_poll: Content is the buffer as the call's read left it, Valid the
\* bytes the call left buffered.

Polled == last_poll.ret # <<"NotCalled">>
Content ==
    last_poll.pre \o (IF last_poll.read[1] = "Ok" THEN last_poll.read[2]
                                                  ELSE <<>>)
Valid == SubSeq(buffer, 1, buffer_len)
NoNewBytes == last_poll.read \in {<<"Err">>, <<"Ok", <<>>>>}

RECURSIVE SumSeq(_)
SumSeq(q) == IF q = <<>> THEN 0 ELSE q[1] + SumSeq(Tail(q))

\* F is a frame: 3..31 bytes, the low 5 bits of its second byte are its
\* length and its last byte is the sum of the others modulo 256.
IsFrame(F) ==
    /\ Len(F) >= 3
    /\ Len(F) <= 31
    /\ F[2] % 32 = Len(F)
    /\ F[Len(F)] = SumSeq(SubSeq(F, 1, Len(F) - 1)) % 256

\* The length the candidate starting at position p of B declares.
Declared(B, p) == B[p + 1] % 32

\* The candidate starting at position p of B passes the length and checksum
\* checks: it declares a length of 3 or more, is all there and sums up.
PassesAt(B, p) ==
    /\ p + 1 <= Len(B)
    /\ Declared(B, p) >= 3
    /\ p + Declared(B, p) - 1 <= Len(B)
    /\ IsFrame(SubSeq(B, p, p + Declared(B, p) - 1))

\* The candidate starting at position p of B is rejected on the bytes there
\* are: it declares less than 3, or it is all there and does not sum up.
RejectedAt(B, p) ==
    /\ p + 1 <= Len(B)
    /\ \/ Declared(B, p) < 3
       \/ /\ p + Declared(B, p) - 1 <= Len(B)
          /\ ~IsFrame(SubSeq(B, p, p + Declared(B, p) - 1))

\* C5 (as claimed): a frame of L bytes, 3 <= L <= 31, whose L bytes are all
\* buffered at the head is returned by the call, which removes exactly those
\* L bytes.
C5_FrameAtHeadReturned ==
    \A L \in 3..31 :
      (Polled /\ Len(Content) >= L /\ IsFrame(SubSeq(Content, 1, L)))
        => /\ last_poll.ret = Some(SubSeq(Content, 1, L))
           /\ buffer_len = Len(Content) - L
           /\ Valid = SubSeq(Content, L + 1, Len(Content))

\* C6 (as claimed, taken on frames of 4 bytes or more): N bytes none of which
\* starts a candidate that passes the checks, then one frame F: the call
\* returns F and error_count has grown by exactly N.
C6_GarbageThenFrame ==
    \A N \in 1..Len(Content) :
      ( /\ Polled
        /\ Len(Content) - N >= 4
        /\ IsFrame(SubSeq(Content, N + 1, Len(Content)))
        /\ \A p \in 1..N : ~PassesAt(Content, p) )
        => /\ last_poll.ret = Some(SubSeq(Content, N + 1, Len(Content)))
           /\ error_count = last_poll.pre_err + N

\* C6 (amended): N bytes each of which starts a candidate that is rejected on
\* the bytes buffered, then one frame F: error_count grows by exactly N and
\* the N bytes are gone; F is returned and the buffer left empty when F has 4
\* bytes or more, and a 3-byte F stays buffered, unreturned.
C6_RejectedThenFrame ==
    \A N \in 0..Len(Content) :
      ( /\ Polled
        /\ IsFrame(SubSeq(Content, N + 1, Len(Content)))
        /\ \A p \in 1..N : RejectedAt(Content, p) )
        => LET F == SubSeq(Content, N + 1, Len(Content))
           IN  /\ error_count = last_poll.pre_err + N
               /\ Len(F) >= 4 => last_poll.ret = Some(F) /\ buffer_len = 0
               /\ Len(F) = 3 => last_poll.ret = None /\ Valid = F

\* C6 witness: two rejected bytes, one for its sum and one for its length,
\* then a frame, which the call returned.
C6_Witness ==
    /\ Polled
    /\ Len(Content) >= 6
    /\ IsFrame(SubSeq(Content, 3, Len(Content)))
    /\ RejectedAt(Content, 1) /\ RejectedAt(Content, 2)
    /\ Declared(Content, 1) >= 3 /\ Declared(Content, 2) < 3
    /\ last_poll.ret = Some(SubSeq(Content, 3, Len(Content)))
    /\ error_count = last_poll.pre_err + 2

NoFrameBuffered(B) == \A p \in 1..Len(B) : ~PassesAt(B, p)
Unchanged ==
    /\ error_count = last_poll.pre_err
    /\ buffer_len = Len(last_poll.pre)
    /\ Valid = last_poll.pre

\* C7 (as claimed): a call that gets no new bytes while no complete valid
\* frame is buffered returns None and leaves error_count, buffer_len and the
\* buffered bytes as they were.
C7_IdlePollChangesNothing ==
    (Polled /\ NoNewBytes /\ NoFrameBuffered(last_poll.pre))
      => last_poll.ret = None /\ Unchanged

\* C7 (amended): such a call returns None; it leaves error_count, buffer_len
\* and the buffered bytes as they were when the call before it, if any,
\* returned None.
C7_IdlePollAfterNone ==
    (Polled /\ NoNewBytes /\ NoFrameBuffered(last_poll.pre))
      => /\ last_poll.ret = None
         /\ last_poll.prev_ret # <<"NotCalled">> /\ last_poll.prev_ret[1] # "Some"
              => Unchanged
         /\ last_poll.prev_ret = <<"NotCalled">> => Unchanged

\* C7 witness: an idle call on a buffer of 4 bytes or more that an earlier
\* call left waiting for the rest of a candidate.
C7_Witness ==
    /\ Polled
    /\ NoNewBytes
    /\ NoFrameBuffered(last_poll.pre)
    /\ last_poll.prev_ret = None
    /\ Len(last_poll.pre) >= 4
    /\ last_poll.ret = None
    /\ Unchanged

\* C20: a frame a call returns has the length its second byte declares in
\* its low 5 bits, between 3 and 31, and its last byte is the sum of the
\* others modulo 256; it is the bytes that were buffered right behind the
\* bytes the call discarded, all of them there, and what follows it stays
\* buffered.
C20_ReturnedFramesValid ==
    (Polled /\ last_poll.ret # None)
       => LET F == last_poll.ret[2]
              n == error_count - last_poll.pre_err
          IN  /\ IsFrame(F)
              /\ n >= 0
              /\ n + Len(F) <= Len(Content)
              /\ F = SubSeq(Content, n + 1, n + Len(F))
              /\ Valid = SubSeq(Content, n + Len(F) + 1, Len(Content))

\* C20 witness: a call discarded a byte and returned a 4-byte frame whose sum
\* wraps past 255.
C20_Witness ==
    /\ Polled
    /\ last_poll.ret # None
    /\ Len(last_poll.ret[2]) = 4
    /\ SumSeq(SubSeq(last_poll.ret[2], 1, 3)) >= 256
    /\ error_count > last_poll.pre_err

----------------------------------------------------------------------------
\* Claims about the Napco monitor (MonitorSpec). They read the last loop
\* iteration off last_iter, in the states the iteration left (task_pc is
\* "yield", or "panicked" had the framer panicked).

\* The status entries of the monitor, and those of its keypad messages (the
\* start and stop messages are the Info ones).
Published == IF id \in DOMAIN statuses THEN statuses[id] ELSE <<>>
KeypadPublished == SelectSeq(Published, LAMBDA e : e.level # "Info")
AfterBody == task_pc \in {"yield", "panicked"}
PublishedNow == Len(Published) = last_iter.pre_count + 1
Line1Paired ==
    AfterBody /\ last_iter.event = "line1" /\ last_iter.pre_line_0 # None
Line1Unpaired ==
    AfterBody /\ last_iter.event = "line1" /\ last_iter.pre_line_0 = None

\* s without its leading and trailing whitespace: from the first to the last
\* character that is not whitespace.
Stripped(s) ==
    LET ink == {i \in 1..Len(s) : ~IsWhitespace(s[i])}
    IN  IF ink = {} THEN <<>>
        ELSE SubSeq(s, CHOOSE i \in ink : \A j \in ink : i <= j,
                       CHOOSE i \in ink : \A j \in ink : j <= i)

\* The merged message the last iteration, a paired line 1, stands for: the
\* label of the line-1 frame's status bytes, a space, and in double quotes the
\* two stripped texts joined by a space and stripped again.
Merged ==
    LET frame == last_iter.ret[2]
        text0 == last_iter.pre_line_0[2]
        text1 == from_utf8_lossy(SubSeq(frame, 11, 26))
    IN  keypad_status(frame[9], frame[10]) \o <<32, 34>>
          \o Stripped(Stripped(text0) \o <<32>> \o Stripped(text1)) \o <<34>>

\* Armed "READY SYSTEM ARMED"
ArmedReadySystemArmed ==
    <<65, 114, 109, 101, 100, 32, 34, 82, 69, 65, 68, 89, 32, 83, 89, 83, 84,
      69, 77, 32, 65, 82, 77, 69, 68, 34>>

\* C4: when the factory of try_spawn fails (for the monitor: the port cannot
\* be opened), the caller gets exactly the factory's error, there is no task
\* and no handle, neither then nor later, and nothing is ever published.
C4_FactoryErrorSpawnsNothing ==
    (spawn_result[1] = "Err" \/ port[1] = "Err")
       => /\ spawn_result = port
          /\ owner_pc = "failed"
          /\ task_pc = "none"
          /\ join_handle = "None"
          /\ shutdown_dropguard = "None"
          /\ finish_results = <<>>
          /\ DOMAIN statuses = {}
          /\ status_chan = <<>>
          /\ alarm_chan = <<>>

\* C4 witness: the port could not be opened and new has failed with its error.
C4_Witness ==
    /\ port = <<"Err", "e2">>
    /\ spawn_result = <<"Err", "e2">>
    /\ owner_pc = "failed"
    /\ id = 2

\* C8: after a line 1 that found a line 0 pending, the last keypad message is
\* the merged message (the one published if the iteration published), for
\* "READY" and "SYSTEM ARMED" it is Armed "READY SYSTEM ARMED", and no line 0
\* is pending any more.
C8_MergedMessage ==
    Line1Paired
       => /\ last_keypad_message = Merged
          /\ PublishedNow => Published[Len(Published)].message = Merged
          /\ last_line_0 = None
          /\ (last_iter.pre_line_0 = Some(Text16(<<82, 69, 65, 68, 89>>))
                /\ last_iter.ret = Some(FrameArmed))
                => last_keypad_message = ArmedReadySystemArmed

\* C8 witness: "READY" then "SYSTEM ARMED" were merged and published.
C8_Witness ==
    /\ Line1Paired
    /\ last_iter.pre_line_0 = Some(Text16(<<82, 69, 65, 68, 89>>))
    /\ last_iter.ret = Some(FrameArmed)
    /\ PublishedNow
    /\ Published[Len(Published)].message = ArmedReadySystemArmed

\* C9: a paired line 1 publishes exactly when its merged message differs from
\* the last keypad message published; no two keypad messages published in a
\* row are equal; last_keypad_message changes in an iteration exactly when
\* the iteration publishes, and is always the last keypad message published.
C9_PublishIffDiffers ==
    /\ Line1Paired => (PublishedNow <=> Merged # last_iter.pre_last)
    /\ AfterBody =>
          /\ Len(Published) \in {last_iter.pre_count, last_iter.pre_count + 1}
          /\ PublishedNow <=> last_keypad_message # last_iter.pre_last
    /\ \A i \in 1..(Len(KeypadPublished) - 1) :
          KeypadPublished[i].message # KeypadPublished[i + 1].message
    /\ last_keypad_message =
          IF KeypadPublished = <<>>
            THEN <<>>
            ELSE KeypadPublished[Len(KeypadPublished)].message

\* C9 witness: the same pair came twice in a row; the second line 1 was
\* merged to the message already published and published nothing.
C9_Witness ==
    /\ Line1Paired
    /\ ~PublishedNow
    /\ Merged = last_iter.pre_last
    /\ Len(KeypadPublished) = 1
    /\ frames_sent = 4

\* C10: a line 1 with no line 0 pending publishes nothing (no status entry,
\* nothing on either channel), leaves last_keypad_message as it was and no
\* line 0 pending, and the loop goes on to its yield.
C10_UnpairedLine1 ==
    Line1Unpaired
       => /\ Len(Published) = last_iter.pre_count
          /\ Len(status_chan) + Len(alarm_chan) = last_iter.pre_sent
          /\ last_keypad_message = last_iter.pre_last
          /\ last_line_0 = None
          /\ task_pc = "yield"

\* C10 witness: after a message was published, a line 1 came with no line 0
\* before it.
C10_Witness ==
    /\ Line1Unpaired
    /\ last_iter.pre_last # <<>>
    /\ last_keypad_message = last_iter.pre_last
    /\ task_pc = "yield"

\* C19 (as claimed): an update at Info is recorded for its device and puts
\* nothing on the status channel or the alarm channel: the start message of
\* the monitor is its first entry, at Info, and the two channels hold one
\* message for each entry that is not at Info.
C19_InfoNotNotified ==
    /\ task_pc \notin {"none", "start"}
          => Published # <<>> /\ Published[1].level = "Info"
    /\ Len(status_chan) + Len(alarm_chan) = Len(KeypadPublished)

\* The entries of the monitor that are its stop message.
StopEntries == SelectSeq(Published, LAMBDA e : e.message = StoppedMessage)
TaskRunning == task_pc \in {"start", "while", "body", "yield", "stop"}

\* C12: once the token of a running monitor task is cancelled the task leaves
\* its loop and completes; it publishes its stop message exactly once, on
\* completing and only after it saw the token cancelled, and the stop message
\* stays the monitor's last entry; every iteration of the loop body ends in
\* the yield, and the yield leads to the check of the token.
C12_CancelStopsLoop ==
    /\ (TaskRunning /\ shutdown_token = "Cancelled") ~> (task_pc = "done")
    /\ [](/\ Len(StopEntries) = IF task_pc = "done" THEN 1 ELSE 0
          /\ task_pc \in {"stop", "done"}
                => observed /\ shutdown_token = "Cancelled"
          /\ task_pc = "done"
                => Published[Len(Published)].message = StoppedMessage)
    /\ [][/\ task_pc = "body" => task_pc' \in {"body", "yield"}
          /\ task_pc = "yield" => task_pc' \in {"yield", "while"}
          /\ task_pc = "while" => task_pc' \in {"while", "body", "stop"}
          /\ task_pc = "done" => Published' = Published]_vars

\* C12 witness: the task was cancelled after it had published a keypad
\* message, and has completed with the stop message as its last entry.
C12_Witness ==
    /\ task_pc = "done"
    /\ observed
    /\ Len(KeypadPublished) >= 1
    /\ Len(StopEntries) = 1
    /\ Published[Len(Published)].message = StoppedMessage

----------------------------------------------------------------------------
\* Claims about DeviceMonitor::shutdown (Spec).

\* C13: DeviceMonitor::shutdown never passes an error on. Every shutdown
\* call that ended returned normally: the one that found the task completed
\* (finish returned Ok), the one that found it faulted (finish returned the
\* JoinError) and every call after the first (finish returned "task already
\* finished").
C13_ShutdownNeverFails ==
    /\ Len(shutdown_results) = Len(finish_results)
    /\ \A i \in 1..Len(shutdown_results) : shutdown_results[i] = <<"Returned">>
    /\ owner_pc = "holding" /\ join_handle = "None"
          => /\ finish_results # <<>>
             /\ finish_results[1] \in
                   {<<"Ok", task_value>>, <<"Err", "JoinError">>,
                    <<"Err", "task already finished">>}

\* Shutdown was called twice on a monitor whose task had faulted: finish
\* returned the JoinError and then "task already finished", and both
\* shutdown calls returned.
C13_Witness ==
    /\ task_pc = "panicked"
    /\ Len(finish_results) = 2
    /\ finish_results[1] = <<"Err", "JoinError">>
    /\ finish_results[2] = <<"Err", "task already finished">>
    /\ shutdown_results = <<<<"Returned">>, <<"Returned">>>>

----------------------------------------------------------------------------
\* Claims about main and the dummy device (MainSpec).

\* The last iteration of the creation loop took an empty Dummy descriptor.
EmptyDummyTaken ==
    /\ last_create.index > 0
    /\ last_create.device_config.type = "Dummy"
    /\ last_create.device_config.states = <<>>

\* C18: DummyDeviceMonitor::new with an empty state list fails with the
\* error "dummy device must have at least one state"; it takes no id off the
\* counter, spawns no task (no monitor with a future comes to be) and
\* publishes nothing: the only entry of that loop iteration is the report
\* main logs under the log device.
C18_EmptyStatesFail ==
    EmptyDummyTaken
       => /\ last_create.result = <<"Err", EmptyStatesError>>
          /\ NEXT_DEVICE_ID = last_create.pre_next_id
          /\ Len(mons) = last_create.pre_mons
          /\ \A k \in 1..Len(mons) : mons[k].id < last_create.pre_next_id
          /\ last_create.published = {log_device_id}

\* An empty Dummy descriptor was taken after a monitor had been created.
C18_Witness ==
    /\ EmptyDummyTaken
    /\ last_create.pre_mons >= 1
    /\ last_create.pre_next_id = 3

\* The descriptors whose construction does not fail, among the first n of
\* the configuration, and the number of descriptors the loop is done with.
Constructible(d) == create_device_monitor(1, d).result[1] = "Ok"
ConstructibleOf(n) ==
    SelectSeq(SubSeq(config.devices, 1, n), Constructible)
LoopDone == IF main_pc = "startup" THEN 0 ELSE next_config - 1
LoopOver == main_pc \in {"wait", "teardown", "f_take", "f_join", "exit"}
LogEntries == EntriesOf(Sink, log_device_id)

\* C15: a descriptor whose construction fails is reported (an Alarm entry
\* "Could not create device monitor: <error>" under the log device, sent to
\* the alarm channel) and skipped (no monitor, no registration, no entry in
\* the device list), and the loop goes on: it is over only when every
\* descriptor was taken. The device list holds, in order, one registered
\* monitor for each descriptor taken so far whose construction did not fail,
\* and when main exits every one of them has been shut down.
C15_FailedDescriptorSkipped ==
    /\ (last_create.index > 0 /\ last_create.result[1] = "Err")
          => /\ LogEntries # <<>>
             /\ LogEntries[Len(LogEntries)] =
                   [message |-> CouldNotCreate \o last_create.result[2],
                    timestamp |-> 0, level |-> "Alarm"]
             /\ alarm_chan # <<>>
             /\ Len(mons) = last_create.pre_mons
             /\ Len(devices) = last_create.pre_devices
             /\ Len(main_devices) = last_create.pre_list
             /\ next_config = last_create.index + 1
    /\ LoopOver => next_config = Len(config.devices) + 1
    /\ main_pc # "register"
          => /\ Len(main_devices) = Len(ConstructibleOf(LoopDone))
             /\ \A j \in 1..Len(main_devices) :
                   /\ main_devices[j] = j
                   /\ mons[j].states = ConstructibleOf(LoopDone)[j].states
                   /\ mons[j].period = ConstructibleOf(LoopDone)[j].period
                   /\ \E i \in 1..Len(devices) :
                         devices[i] = <<mons[j].id, DeviceName>>
    /\ main_pc = "exit"
          => \A j \in 1..Len(main_devices) :
                /\ mons[j].shutdown_result = <<"Returned">>
                /\ mons[j].task_pc = "done"

\* main has exited after a configuration with a failing descriptor between
\* two others: both others were constructed, registered and shut down.
C15_Witness ==
    /\ main_pc = "exit"
    /\ Len(config.devices) = 3
    /\ ~Constructible(config.devices[2])
    /\ Len(main_devices) = 2
    /\ \A j \in 1..2 : mons[j].shutdown_result = <<"Returned">>

\* C16: creating a monitor from a NapcoGemini descriptor fails only when its
\* serial port cannot be opened; when the port opens, the loop iteration
\* yields one more monitor, a Napco one, owning one BackgroundTask with its
\* token, armed guard and join handle.
C16_NapcoCreatedWhenPortOpens ==
    (last_create.index > 0 /\ last_create.device_config.type = "NapcoGemini")
       => /\ last_create.result[1] = "Err"
                => last_create.device_config.port \notin OpenablePorts
          /\ last_create.device_config.port \in OpenablePorts
                => /\ last_create.result = <<"Ok">>
                   /\ Len(mons) = last_create.pre_mons + 1
                   /\ mons[Len(mons)].kind = "napco"
                   /\ mons[Len(mons)].join_handle = "Some"
                   /\ mons[Len(mons)].shutdown_dropguard = "Armed"

\* What monitor k has published, the entry its n-th state publication is to
\* be, the number of its state entries and of its stop entries, and whether
\* shutdown was invoked on it.
MonEntries(k) == EntriesOf(Sink, mons[k].id)
StateEntry(k, n) ==
    LET state == mons[k].states[((n - 1) % Len(mons[k].states)) + 1]
    IN  [message |-> state[1], timestamp |-> 0,
         level |-> IF state[2] THEN "Alarm" ELSE "Status"]
StartEntry == [message |-> DummyStarted, timestamp |-> 0, level |-> "Info"]
StopEntry == [message |-> DummyStopped, timestamp |-> 0, level |-> "Info"]
StateCount(k) ==
    Len(SelectSeq(MonEntries(k), LAMBDA e : e.level # "Info"))
StopCount(k) == Len(SelectSeq(MonEntries(k), LAMBDA e : e = StopEntry))
ShutdownInvoked(k) == mons[k].shutdown_result # <<"NotCalled">>

\* The publications of the dummy monitors are, in order, the start message,
\* then the states in list order, wrapping, one for the start and one more
\* for each period that has passed, each at Alarm level when its flag is set
\* and at Status level otherwise; the stop message is there exactly once the
\* task has completed, as the last entry, and a shutdown call has returned
\* only after that.
DummyPublications ==
    \A k \in 1..Len(mons) :
       LET E == MonEntries(k)
           pc == mons[k].task_pc
       IN  /\ \A i \in 1..Len(E) :
                 E[i] = IF i = 1 THEN StartEntry
                        ELSE IF pc = "done" /\ i = Len(E) THEN StopEntry
                        ELSE StateEntry(k, i - 1)
           /\ Len(E) = CASE pc = "start" -> 0
                         [] pc = "publish" -> 1 + mons[k].rounds
                         [] pc \in {"select", "stop"} -> 2 + mons[k].rounds
                         [] pc = "done" -> 3 + mons[k].rounds
           /\ StopCount(k) = IF pc = "done" THEN 1 ELSE 0
           /\ mons[k].shutdown_result = <<"Returned">> => pc = "done"

\* C11 as stated: the publications are as above, and once shutdown is invoked
\* on a dummy monitor it publishes no further state entry.
C11_NoStateAfterShutdown ==
    /\ []DummyPublications
    /\ [][\A k \in 1..Len(mons) :
             ShutdownInvoked(k) => StateCount(k)' = StateCount(k)]_vars

\* C11, amended: the publications are as above, and once the task has taken
\* the cancellation branch of its select it publishes no further state entry
\* (a state entry may still follow the invocation of shutdown: the start and
\* the first state when the task had not run yet, or the next state when the
\* period has passed as well).
C11_NoStateAfterCancelSeen ==
    /\ []DummyPublications
    /\ [][\A k \in 1..Len(mons) :
             mons[k].task_pc \in {"stop", "done"}
                => StateCount(k)' = StateCount(k)]_vars

\* A dummy monitor with two states has wrapped around, was shut down and has
\* published its stop: start, Ready, INTRUSION, Ready, stop.
C11_Witness ==
    \E k \in 1..Len(mons) :
       /\ Len(mons[k].states) = 2
       /\ mons[k].rounds = 2
       /\ mons[k].shutdown_result = <<"Returned">>
       /\ Len(MonEntries(k)) = 5
       /\ MonEntries(k)[4] = StateEntry(k, 1)
       /\ MonEntries(k)[5] = StopEntry

----------------------------------------------------------------------------
\* Claims about the teardown of main (TeardownFairSpec).

\* The monitors whose task fails or never observes the cancellation.
Misbehaving == {k \in 1..Len(mons) : mons[k].kind \in {"failing", "deaf"}}
OthersShutDown ==
    \A k \in 1..Len(mons) :
       k \notin Misbehaving => mons[k].shutdown_result = <<"Returned">>

\* C14 as stated: when the teardown begins with at most one misbehaving
\* device in the list, whose task fails or never observes the cancellation,
\* every other device gets its shutdown invoked and completed.
C14_OneCannotBlock ==
    (main_pc = "teardown" /\ Cardinality(Misbehaving) <= 1)
       ~> OthersShutDown

\* C14, amended: when the teardown begins with at most one misbehaving device
\* in the list, whose task fails, every other device gets its shutdown
\* invoked and completed. (A task that never observes the cancellation keeps
\* the teardown loop at its device for ever.)
C14_FailingCannotBlock ==
    (/\ main_pc = "teardown"
     /\ Cardinality(Misbehaving) <= 1
     /\ \A k \in Misbehaving : mons[k].kind = "failing")
       ~> OthersShutDown

\* main has exited after a teardown whose first device had failed: its finish
\* returned the JoinError, and the two devices after it were shut down.
C14_Witness ==
    /\ main_pc = "exit"
    /\ Len(mons) = 3
    /\ Misbehaving = {1}
    /\ mons[1].finish_result = <<"Err", "JoinError">>
    /\ OthersShutDown

----------------------------------------------------------------------------
\* Claims about DeviceId::default (IdSpec).

\* The id a call was given.
IdOf(c) == callers[c[1]].ids[c[2]][1]

\* C17: any two calls of DeviceId::default(), on one thread or on two, were
\* given different ids; the ids given so far are exactly 1, 2, ... up to the
\* counter, whether or not the construction that took one succeeded; and
\* every id given is greater than every id given before it.
C17_IdsUnique ==
    /\ [](/\ \A c \in Handed, d \in Handed : c # d => IdOf(c) # IdOf(d)
          /\ {IdOf(c) : c \in Handed} = 1..(NEXT_DEVICE_ID - 1)
          /\ Cardinality(Handed) = NEXT_DEVICE_ID - 1)
    /\ [][\A t \in 1..IdThreads :
             Len(callers'[t].ids) > Len(callers[t].ids)
                => /\ callers'[t].ids[Len(callers'[t].ids)][1] = NEXT_DEVICE_ID
                   /\ \A c \in Handed :
                         IdOf(c) < callers'[t].ids[Len(callers'[t].ids)][1]
                   /\ NEXT_DEVICE_ID' > NEXT_DEVICE_ID]_vars

\* Three threads were given the ids 1 to 4 between them, one of them for a
\* construction that failed.
C17_Witness ==
    /\ NEXT_DEVICE_ID = 5
    /\ \A t \in 1..IdThreads : callers[t].ids # <<>>
    /\ \E c \in Handed : ~callers[c[1]].ids[c[2]][2]
    /\ \E c \in Handed : IdOf(c) = 1

----------------------------------------------------------------------------
\* Claims about the level and the status label of keypad messages
\* (LabelSpec).

\* The entries of the monitor that are keypad messages: all but its start
\* and stop messages.
KeypadEntries ==
    SelectSeq(Published,
              LAMBDA e : e.message \notin {StartedMessage, StoppedMessage})

\* c is the letter small, whichever case it is written in.
IsLetter(c, small) == c = small \/ c = small - 32

\* s holds the letters a, l, a, r, m in a row, in any case.
HasAlarm(s) ==
    \E p \in 1..(Len(s) - 4) :
       /\ IsLetter(s[p], 97)
       /\ IsLetter(s[p + 1], 108)
       /\ IsLetter(s[p + 2], 97)
       /\ IsLetter(s[p + 3], 114)
       /\ IsLetter(s[p + 4], 109)

\* C22: a keypad message is published at Alarm when the text composed for it
\* (the status label and the quoted merged text) contains "alarm" in any
\* case, and at Status when it does not; never at Info or Warning. An Alarm
\* message goes to the alarm channel and a Status message to the status
\* channel.
C22_AlarmIffContainsAlarm ==
    /\ \A i \in 1..Len(KeypadEntries) :
          /\ KeypadEntries[i].level \in {"Alarm", "Status"}
          /\ KeypadEntries[i].level = "Alarm"
                <=> HasAlarm(KeypadEntries[i].message)
    /\ (AfterBody /\ PublishedNow)
          => LET e == Published[Len(Published)]
             IN  /\ e.level = IF HasAlarm(e.message) THEN "Alarm" ELSE "Status"
                 /\ Len(alarm_chan) + Len(status_chan) = last_iter.pre_sent + 1
                 /\ e.level = "Alarm" =>
                       /\ alarm_chan # <<>>
                       /\ alarm_chan[Len(alarm_chan)] =
                             log_message(devices, id, e.message, "Alarm")
                 /\ e.level = "Status" =>
                       /\ status_chan # <<>>
                       /\ status_chan[Len(status_chan)] =
                             log_message(devices, id, e.message, "Status")

\* C22 witness: after a message at Status, a message whose merged text has
\* no "alarm" was published at Alarm for the ALARM of its status label.
C22_Witness ==
    /\ AfterBody
    /\ PublishedNow
    /\ last_iter.ret = Some(FrameZone)
    /\ Published[Len(Published)].level = "Alarm"
    /\ ~HasAlarm(keypad_entire_text(last_iter.pre_line_0[2],
                                    from_utf8_lossy(SubSeq(FrameZone, 11, 26))))
    /\ \E i \in 1..Len(KeypadEntries) : KeypadEntries[i].level = "Status"

\* The frame with its status bytes (bytes 8 and 9) set to st and its checksum
\* brought up to date.
WithStatus(frame, st) ==
    BusFrame(frame[5], frame[6], st[1], st[2], SubSeq(frame, 11, 26))

\* Status bytes to try: Ready, ALARM, Armed and a pair outside the table.
StatusPairs == {<<2, 0>>, <<65, 129>>, <<1, 128>>, <<10, 255>>}

\* The text bytes of a 27-byte frame as a string.
TextOf(frame) == from_utf8_lossy(SubSeq(frame, 11, 26))

\* C27: the status bytes of a line-0 frame reach nothing: the iteration that
\* meets the frame leaves the same locals and publishes nothing whatever the
\* frame's status bytes are, and keeps only the frame's text; the message a
\* paired line 1 stands for has the label of the line-1 frame's status bytes
\* and the text of the two frames, that message alone decides its level and
\* whether it is published, and it is the same whatever the status bytes of
\* the line-0 frame were.
C27_Line0StatusUnused ==
    /\ (AfterBody /\ last_iter.event = "line0")
          => /\ last_line_0 = Some(TextOf(last_iter.ret[2]))
             /\ last_keypad_message = last_iter.pre_last
             /\ ~PublishedNow
             /\ \A st \in StatusPairs :
                   KeypadStep(last_iter.pre_line_0, last_iter.pre_last,
                              Some(WithStatus(last_iter.ret[2], st)))
                     = [last_line_0 |-> last_line_0,
                        last_keypad_message |-> last_keypad_message,
                        publish |-> None, event |-> "line0"]
    /\ Line1Paired
          => LET f0 == last_iter.line0_frame[2]
                 f1 == last_iter.ret[2]
                 m == keypad_status(f1[9], f1[10]) \o <<32, 34>>
                        \o Stripped(Stripped(TextOf(f0)) \o <<32>>
                                      \o Stripped(TextOf(f1))) \o <<34>>
             IN  /\ last_iter.pre_line_0 = Some(TextOf(f0))
                 /\ PublishedNow <=> m # last_iter.pre_last
                 /\ PublishedNow =>
                       /\ Published[Len(Published)].message = m
                       /\ Published[Len(Published)].level =
                             IF HasAlarm(m) THEN "Alarm" ELSE "Status"
                 /\ \A st \in StatusPairs :
                       KeypadStep(
                          KeypadStep(None, last_iter.pre_last,
                                     Some(WithStatus(f0, st))).last_line_0,
                          last_iter.pre_last, last_iter.ret)
                        = [last_line_0 |-> last_line_0,
                           last_keypad_message |-> last_keypad_message,
                           publish |->
                              IF PublishedNow
                                THEN Some([message |-> m,
                                           level |->
                                              Published[Len(Published)].level])
                                ELSE None,
                           event |-> "line1"]

\* C27 witness: "READY" with the status bytes of Ready and "SYSTEM ARMED"
\* were published at Status; then "READY" came with the status bytes of
\* ALARM, and its "SYSTEM ARMED" was suppressed as a duplicate: nothing was
\* published at Alarm.
C27_Witness ==
    /\ Line1Paired
    /\ last_iter.line0_frame = Some(FrameReadyAlarm)
    /\ last_iter.ret = Some(FrameArmed)
    /\ ~PublishedNow
    /\ last_iter.pre_last = ArmedReadySystemArmed
    /\ Len(KeypadEntries) = 1
    /\ KeypadEntries[1].level = "Status"

----------------------------------------------------------------------------
\* Claims about the pairing of the two lines (PairingSpec, MonitorSpec).

\* The frame is no keypad display frame: its length is not 27, or its byte 4
\* is not 0x01, or its byte 5 is neither 0x20 nor 0x60.
NotKeypadFrame(frame) ==
    \/ Len(frame) # 27
    \/ frame[5] # 1
    \/ frame[6] \notin {32, 96}

\* The last iteration got a frame that is no keypad display frame.
MetOtherFrame ==
    AfterBody /\ last_iter.ret # None /\ NotKeypadFrame(last_iter.ret[2])

\* C21: an iteration that gets a frame that is no keypad display frame
\* publishes nothing (no entry, nothing on either channel) and leaves
\* last_line_0 and last_keypad_message as they were; so a line 1 that comes
\* after a line 0 with only such frames in between finds the text of that
\* line 0 pending and is merged with it.
C21_OtherFramesIgnored ==
    /\ MetOtherFrame
          => /\ last_iter.event = "ignored"
             /\ Len(Published) = last_iter.pre_count
             /\ Len(status_chan) + Len(alarm_chan) = last_iter.pre_sent
             /\ last_line_0 = last_iter.pre_line_0
             /\ last_keypad_message = last_iter.pre_last
    /\ (task_pc \in {"while", "body", "yield"} /\ last_iter.skipped # None)
          => last_line_0 = Some(TextOf(last_iter.line0_frame[2]))
    /\ (AfterBody /\ last_iter.event = "line1"
          /\ last_iter.pre_skipped # None)
          => /\ last_iter.pre_line_0 = Some(TextOf(last_iter.line0_frame[2]))
             /\ last_keypad_message = Merged
             /\ PublishedNow <=> Merged # last_iter.pre_last
             /\ PublishedNow => Published[Len(Published)].message = Merged

\* C21 witness: "READY", then a 4-byte frame and a 27-byte frame whose line
\* byte is 0x40, then "SYSTEM ARMED", which was merged with "READY" and
\* published.
C21_Witness ==
    /\ AfterBody
    /\ last_iter.event = "line1"
    /\ last_iter.line0_frame = Some(FrameReady)
    /\ last_iter.pre_skipped = Some(<<FrameShort, FrameOtherLine>>)
    /\ last_iter.ret = Some(FrameArmed)
    /\ PublishedNow
    /\ Published[Len(Published)].message = ArmedReadySystemArmed

\* C26: a line 0 replaces whatever line 0 is pending with its own text and
\* publishes nothing; after a line 1, published, suppressed or unpaired, no
\* line 0 is pending; so the pending text is always the text of the latest
\* line-0 frame with no line 1 since, and a line 1 is merged only with a
\* line 0 that no line 1 came after.
C26_Line0ReplacedThenCleared ==
    /\ (AfterBody /\ last_iter.event = "line0")
          => /\ last_line_0 = Some(TextOf(last_iter.ret[2]))
             /\ Len(Published) = last_iter.pre_count
             /\ Len(status_chan) + Len(alarm_chan) = last_iter.pre_sent
             /\ last_keypad_message = last_iter.pre_last
    /\ (AfterBody /\ last_iter.event = "line1") => last_line_0 = None
    /\ (task_pc \in {"while", "body", "yield"} /\ last_line_0 # None)
          => /\ last_iter.skipped # None
             /\ last_line_0 = Some(TextOf(last_iter.line0_frame[2]))
    /\ Line1Paired
          => /\ last_iter.pre_skipped # None
             /\ last_iter.pre_line_0 = Some(TextOf(last_iter.line0_frame[2]))
    /\ (AfterBody /\ last_iter.event = "line1"
          /\ last_iter.pre_skipped = None) => ~PublishedNow

\* C26 witness: "READY" was pending when a blank line 0 came; the blank text
\* is pending now and nothing was published.
C26_Witness ==
    /\ AfterBody
    /\ last_iter.event = "line0"
    /\ last_iter.pre_line_0 = Some(Text16(<<82, 69, 65, 68, 89>>))
    /\ last_iter.ret = Some(FrameBlank)
    /\ last_line_0 = Some(Text16(<<>>))
    /\ Len(Published) = last_iter.pre_count

----------------------------------------------------------------------------
\* Claims about the bytes the framer takes in and gives up (FramerSpec,
\* where last_poll.accepted and last_poll.log cover all calls so far).

\* The bytes of the entries of a log, in order.
RECURSIVE Flatten(_)
Flatten(entries) ==
    IF entries = <<>> THEN <<>>
                      ELSE entries[1].bytes \o Flatten(Tail(entries))

ErrorEntries == SelectSeq(last_poll.log, LAMBDA e : e.error)
FrameEntries == SelectSeq(last_poll.log, LAMBDA e : ~e.error)

\* q starts with p.
IsPrefix(p, q) == Len(p) <= Len(q) /\ SubSeq(q, 1, Len(p)) = p

\* C25: the bytes read from the port are, in order, the bytes taken off the
\* buffer (those discarded as errors and the messages returned, as they came)
\* followed by the bytes still buffered; an error discard takes one byte;
\* error_count is the number of bytes discarded as errors, a returned
\* message adds nothing to it, and it never decreases; a call that returns a
\* message took it off last; what was taken off stays taken off.
C25_BytesConserved ==
    /\ [](/\ last_poll.accepted = Flatten(last_poll.log) \o Valid
          /\ Len(last_poll.accepted) = bus_count
          /\ \A i \in 1..Len(last_poll.log) :
                IF last_poll.log[i].error
                  THEN Len(last_poll.log[i].bytes) = 1
                  ELSE IsFrame(last_poll.log[i].bytes)
          /\ error_count = Len(ErrorEntries)
          /\ error_count + SumSeq([i \in 1..Len(FrameEntries) |->
                                     Len(FrameEntries[i].bytes)])
               + buffer_len = bus_count
          /\ (Polled /\ last_poll.ret # None)
                => last_poll.log[Len(last_poll.log)] =
                      [error |-> FALSE, bytes |-> last_poll.ret[2]])
    /\ [][/\ error_count' >= error_count
          /\ IsPrefix(last_poll.log, last_poll.log')
          /\ IsPrefix(last_poll.accepted, last_poll.accepted')
          /\ error_count' - error_count
               = Len(SelectSeq(last_poll.log', LAMBDA e : e.error))
                   - Len(ErrorEntries)]_vars

\* C25 witness: after two calls or more, two bytes were discarded as errors,
\* then a message was returned, and bytes are still buffered.
C25_Witness ==
    /\ Polled
    /\ last_poll.prev_ret # <<"NotCalled">>
    /\ error_count = 2
    /\ Len(FrameEntries) = 1
    /\ last_poll.log[1].error
    /\ ~last_poll.log[3].error
    /\ buffer_len >= 1
    /\ last_poll.accepted = Flatten(last_poll.log) \o Valid

----------------------------------------------------------------------------
\* Claims about the framer's buffer at its capacity (BurstSpec).

\* C23: buffer_len stays within 0..BUFFER_CAP, and so does what was ever
\* written of the buffer; no call reads a byte of the buffer at or past
\* buffer_len, and no call panics in discard_buffer.
C23_BufferWithinBounds ==
    /\ buffer_len \in 0..BUFFER_CAP
    /\ Len(buffer) <= BUFFER_CAP
    /\ buffer_len <= Len(buffer)
    /\ ~last_poll.stale
    /\ ~last_poll.panic

\* C23 witness: a call whose read filled the buffer to its capacity
\* discarded bytes and returned a message.
C23_Witness ==
    /\ Polled
    /\ Len(Content) = BUFFER_CAP
    /\ error_count > last_poll.pre_err
    /\ last_poll.ret # None
    /\ ~last_poll.stale
    /\ ~last_poll.panic

\* C24: a call that returns None leaves at most 30 bytes buffered; a call
\* whose buffer is at capacity once the read is done discards bytes or
\* returns a message; and after every call the buffer has room, at least the
\* 3 bytes of the shortest message, so that every call reads from the port
\* and stores what the port returns.
C24_NoStallOnFullBuffer ==
    /\ (Polled /\ last_poll.ret = None) => buffer_len <= 30
    /\ (Polled /\ Len(Content) = BUFFER_CAP)
          => \/ last_poll.ret # None
             \/ error_count > last_poll.pre_err
    /\ buffer_len <= BUFFER_CAP - 3
    /\ (Polled /\ last_poll.read[1] = "Ok")
          => last_poll.accepted = last_poll.read[2]

\* C24 witness: the port has handed over more than the buffer holds; the
\* call found more than 30 bytes buffered, none of them starting a message,
\* discarded down to 30 and returned None.
C24_Witness ==
    /\ Polled
    /\ bus_count > BUFFER_CAP
    /\ Len(Content) > 30
    /\ error_count = last_poll.pre_err + Len(Content) - 30
    /\ last_poll.ret = None
    /\ buffer_len = 30

====
